---- MODULE Spec2Model ----
(***************************************************************************)
(* A model of the CWA binary decoder of openmovement-python                *)
(* (src/src/openmovement/cwa_load.py): the packed timestamp decoders, the  *)
(* sector checksum, the packed-DWORD sample decoder and the whole-file     *)
(* load performed by CwaData.__init__.                                     *)
(*                                                                         *)
(* Number representation.  TLC integers are 32 bits wide, the program's    *)
(* are not.  A 32-bit unsigned field is kept as its two 16-bit halves      *)
(* [hi, lo]; a count of seconds is kept as [d, s] = d * 86400 + s with     *)
(* 0 <= s < 86400, which is a canonical form: two counts are equal exactly *)
(* when their records are.                                                 *)
(***************************************************************************)
EXTENDS Integers, Sequences, FiniteSets, TLC

VARIABLES
    ts_value, ts_slow, ts_fast,        \* timestamp decoders: input, _parse_timestamp result, _fast_timestamp result
    dw_in, dw_value, dw_axes,          \* _dword_unpack: the packed fields, the packed value, the result
    dw_bulk,                           \* the row the whole-file decoder makes of the packed value
    ck_block, ck_scalar, ck_bulk,      \* checksums: 512-byte block, _checksum result, bulk int16 sum
    file,                              \* the bytes of the file on disk (offset o at o + 1)
    options,                           \* the include_* arguments of CwaData(...)
    pc,                                \* where CwaData.__init__ is, "done" after it, "raised" if it raised
    error,                             \* the exception __init__ raised, "" if none
    fh, full_buffer,                   \* self.fh, self.full_buffer
    header, data_offset, data_format,  \* self.header, self.data_offset, self.data_format
    df,                                \* self.df: one row per data sector
    labels, sample_values,             \* self.labels, self.sample_values
    all_segments,                      \* self.all_segments: the segments of the sectors, if ever assigned
    closing,                           \* the calls of close(), __exit__ and __del__ made, and how often
                                       \* the handle and the mapping were closed
    zf_source,                         \* PotentiallyZippedFile: the source file, its name and what the archive holds
    zf_filters,                        \* the `filters` argument, a list of patterns or a str
    zf_pc, zf_error,                   \* where its __init__ is, and the exception it raised, "" if none
    zf_self,                           \* self.filters, self.archive_file, self.temp_file
    zf_matching, zf_index,             \* the `matching` list and the position of the loop over the entries
    zf_entered,                        \* what __enter__ returned, if called
    zf_disk, zf_removed,               \* the files in the temporary directory; the paths given to os.remove
    sv_input, sv_read,                 \* CalcSvm: the rows of the input iterator and how many were taken
    sv_options,                        \* the options given to CalcSvm
    sv_self,                           \* the attributes of the CalcSvm object
    sv_pc,                             \* "iterating" while the consumer calls next(), then "stopped"
    sv_output,                         \* the results returned so far
    sv_rows,                           \* history: the rows added to the epoch being accumulated, and
                                       \* the rows of each result returned
    md_pc, md_error,                   \* MultiData: the position in __init__, and what it raised
    md_self,                           \* the attributes inner_data and potentially_zipped_file
    md_calls                           \* history: how each call of close() ended

ts_vars == <<ts_value, ts_slow, ts_fast>>

dw_vars == <<dw_in, dw_value, dw_axes, dw_bulk>>

ck_vars == <<ck_block, ck_scalar, ck_bulk>>

ld_vars == <<file, options, pc, error, fh, full_buffer, header, data_offset, data_format,
             df, labels, sample_values, all_segments, closing>>

zf_vars == <<zf_source, zf_filters, zf_pc, zf_error, zf_self, zf_matching, zf_index,
             zf_entered, zf_disk, zf_removed>>

sv_vars == <<sv_input, sv_read, sv_options, sv_self, sv_pc, sv_output, sv_rows>>

md_vars == <<md_pc, md_error, md_self, md_calls>>

vars == <<ts_vars, dw_vars, ck_vars, ld_vars, zf_vars, sv_vars, md_vars>>

\* how many values next to each end of a field's range the inputs enumerate
EdgeWidth == 1

\* a result not computed yet, and a computed one (values of different kinds are never compared)
Unset == <<>>

Some(v) == <<v>>

(***************************************************************************)
(* Bit operations on naturals, as Python's >>, <<, &, ^ compute them.      *)
(***************************************************************************)
RECURSIVE BitAnd(_, _)
BitAnd(a, b) ==
    IF a = 0 \/ b = 0 THEN 0
    ELSE (a % 2) * (b % 2) + 2 * BitAnd(a \div 2, b \div 2)

RECURSIVE BitXor(_, _)
BitXor(a, b) ==
    IF a = 0 THEN b
    ELSE IF b = 0 THEN a
    ELSE ((a + b) % 2) + 2 * BitXor(a \div 2, b \div 2)

Shr(a, n) == a \div (2 ^ n)

Shl(a, n) == a * (2 ^ n)

\* (value >> shift) for a 32-bit value [hi, lo] and shift >= 2 (the result fits 30 bits)
U32Shr(value, shift) ==
    IF shift >= 16 THEN Shr(value.hi, shift - 16)
    ELSE Shr(value.lo, shift) + Shl(value.hi, 16 - shift)

\* ((value >> shift) & mask) for a 32-bit value [hi, lo] and a mask of at most 10 bits
U32Field(value, shift, mask) ==
    IF shift >= 16 THEN BitAnd(Shr(value.hi, shift - 16), mask)
    ELSE BitAnd(Shr(value.lo, shift) + Shl(value.hi % 1024, 16 - shift), mask)

U32(hi, lo) == [hi |-> hi, lo |-> lo]

U32_ZERO == U32(0, 0)

U32_ONES == U32(65535, 65535)

(***************************************************************************)
(* Counts of seconds.                                                      *)
(***************************************************************************)
SECONDS_PER_DAY == 24 * 60 * 60

Secs(d, s) == [d |-> d + (s \div SECONDS_PER_DAY), s |-> s % SECONDS_PER_DAY]

SecsOfInt(n) == Secs(0, n)

SecsPlus(a, n) == Secs(a.d, a.s + n)

SecsLess(a, b) == a.d < b.d \/ (a.d = b.d /\ a.s < b.s)

\* the cast to numpy.uint32 of otypes=[np.uint32]: modulo 2^32 = 49710 days 23296 s
TWO_POW_32 == [d |-> 49710, s |-> 23296]

ToUint32(a) ==
    IF a.d < 0 THEN Secs(a.d + TWO_POW_32.d, a.s + TWO_POW_32.s)
    ELSE IF SecsLess(a, TWO_POW_32) THEN a
    ELSE Secs(a.d - TWO_POW_32.d, a.s - TWO_POW_32.s)

(***************************************************************************)
(* _fast_timestamp: the lookup table and the decoder.                      *)
(***************************************************************************)
DAYS_IN_MONTH == <<0, 31, 28, 31, 30, 31, 30, 31, 31, 30, 31, 30, 31, 0, 0, 0>>

DEVICE_EPOCH == 946684800

\* days added to seconds_before by the loop iteration at `index` = (year << 4) + month
DaysOfIteration_NoLeap(index) == DAYS_IN_MONTH[(index % 16) + 1]

DaysOfIteration(index) ==
    LET year  == index \div 16
        month == index % 16
        days  == DAYS_IN_MONTH[month + 1]
    IN  IF year % 4 = 0 /\ month = 2 THEN days + 1 ELSE days

\* one iteration of the table loop on its state: the table so far (entry i at i + 1)
\* and the days accumulated into seconds_before
TableIteration(st, index) ==
    [table |-> Append(st.table, SecsPlus(Secs(st.days, DEVICE_EPOCH), -SECONDS_PER_DAY)),
     days  |-> st.days + DaysOfIteration(index)]

\* the iterations lo .. hi-1 of the table loop, in order (run by halves, the first half evaluated before the second starts)
RECURSIVE TableLoop(_, _, _)
TableLoop(st, lo, hi) ==
    IF hi - lo = 1 THEN TableIteration(st, lo)
    ELSE LET mid   == (lo + hi) \div 2
             first == TableLoop(st, lo, mid)
         IN  IF first = first THEN TableLoop(first, mid, hi) ELSE first

SECONDS_BEFORE_YEAR_MONTH == TableLoop([table |-> <<>>, days |-> 0], 0, 64 * 16).table

fast_timestamp(value) ==
    LET year_month == U32Field(value, 22, 1023)
        day        == U32Field(value, 17, 31)
        hours      == U32Field(value, 12, 31)
        mins       == U32Field(value, 6, 63)
        secs       == BitAnd(value.lo, 63)
    IN  SecsPlus(SECONDS_BEFORE_YEAR_MONTH[year_month + 1],
                 ((day * 24 + hours) * 60 + mins) * 60 + secs)

(***************************************************************************)
(* _parse_timestamp, with datetime(...) and (dt - EPOCH).total_seconds()   *)
(* as the standard library computes them (proleptic Gregorian ordinals).   *)
(***************************************************************************)
is_leap(year) == year % 4 = 0 /\ (year % 100 # 0 \/ year % 400 = 0)

DAYS_BEFORE_MONTH == <<0, 31, 59, 90, 120, 151, 181, 212, 243, 273, 304, 334>>

days_in_month_ThirtyOne(year, month) == 31

days_in_month(year, month) ==
    IF month = 2 /\ is_leap(year) THEN 29 ELSE DAYS_IN_MONTH[month + 1]

\* datetime(year, month, day, hours, mins, secs) does not raise ValueError
datetime_ok(year, month, day, hours, mins, secs) ==
    /\ month \in 1..12
    /\ day >= 1 /\ day <= days_in_month(year, month)
    /\ hours <= 23 /\ mins <= 59 /\ secs <= 59

days_before_year(year) ==
    LET y == year - 1 IN y * 365 + (y \div 4) - (y \div 100) + (y \div 400)

days_before_month(year, month) ==
    DAYS_BEFORE_MONTH[month] + (IF month > 2 /\ is_leap(year) THEN 1 ELSE 0)

ymd2ord(year, month, day) ==
    days_before_year(year) + days_before_month(year, month) + day

EPOCH_ORDINAL == ymd2ord(1970, 1, 1)

MINUS_ONE == SecsOfInt(-1)

\* the calendar branch of _parse_timestamp
parse_calendar(value) ==
    LET year  == U32Field(value, 26, 63) + 2000
        month == U32Field(value, 22, 15)
        day   == U32Field(value, 17, 31)
        hours == U32Field(value, 12, 31)
        mins  == U32Field(value, 6, 63)
        secs  == U32Field(value, 0, 63)
    IN  IF datetime_ok(year, month, day, hours, mins, secs)
        THEN Secs(ymd2ord(year, month, day) - EPOCH_ORDINAL,
                  hours * 3600 + mins * 60 + secs)
        ELSE MINUS_ONE

parse_timestamp_NoSentinel(value) == parse_calendar(value)

parse_timestamp(value) ==
    IF value = U32_ZERO THEN SecsOfInt(0)
    ELSE IF value = U32_ONES THEN MINUS_ONE
    ELSE parse_calendar(value)

(***************************************************************************)
(* _dword_unpack.                                                          *)
(***************************************************************************)
SignExtend10_None(field) == field

SignExtend10(field) == BitXor(field, 512) - 512

dword_unpack(value) ==
    LET exponent == U32Shr(value, 30)
        x == Shl(SignExtend10(U32Field(value, 0, 1023)), exponent)
        y == Shl(SignExtend10(U32Field(value, 10, 1023)), exponent)
        z == Shl(SignExtend10(U32Field(value, 20, 1023)), exponent)
    IN  <<x, y, z>>

(***************************************************************************)
(* Checksums of a 512-byte block (a sequence of bytes, offset o at o + 1). *)
(***************************************************************************)
SECTOR_SIZE == 512

\* unpack('<H', data[ofs:ofs+2])[0], and a '<H' element of np.frombuffer
U16LE(data, ofs) == data[ofs + 1] + 256 * data[ofs + 2]

\* the iterations i = lo, lo + 2, .. < hi of the loop of _checksum on `sum`, in order
\* (run by halves, the first half evaluated before the second starts)
RECURSIVE checksum_loop(_, _, _, _)
checksum_loop(data, lo, hi, sum) ==
    IF hi - lo <= 2 THEN BitAnd(sum + U16LE(data, lo), 65535)
    ELSE LET mid   == lo + 2 * ((hi - lo) \div 4)
             first == checksum_loop(data, lo, mid, sum)
         IN  IF first = first THEN checksum_loop(data, mid, hi, first) ELSE first

checksum(data) == IF Len(data) = 0 THEN 0 ELSE checksum_loop(data, 0, Len(data), 0)

\* a uint16 word cast to numpy.int16, and int16 addition (both wrap)
ToInt16_NoWrap(w) == w

ToInt16(w) == LET m == w % 65536 IN IF m >= 32768 THEN m - 65536 ELSE m

\* np.sum(np_sector_words, dtype=np.int16, axis=1) for the sector at byte offset `base`:
\* the words lo .. hi-1 of the sector added to acc
RECURSIVE sum_int16(_, _, _, _, _)
sum_int16(data, base, lo, hi, acc) ==
    IF hi - lo = 1 THEN ToInt16(acc + ToInt16(U16LE(data, base + 2 * lo)))
    ELSE LET mid   == (lo + hi) \div 2
             first == sum_int16(data, base, lo, mid, acc)
         IN  IF first = first THEN sum_int16(data, base, mid, hi, first) ELSE first

checksum_sum(data, base) == sum_int16(data, base, 0, SECTOR_SIZE \div 2, 0)

(***************************************************************************)
(* Python floats are modelled by the exact values they approximate: a      *)
(* rational [n, m] in lowest terms, and a time [d, s, q] of d days, s < 86400 *)
(* seconds and a rational part q < 1 of a second.                          *)
(***************************************************************************)
Abs(a) == IF a < 0 THEN -a ELSE a

RECURSIVE Gcd(_, _)
Gcd(a, b) == IF b = 0 THEN a ELSE Gcd(b, a % b)

Rat(n, m) == LET g == Gcd(Abs(n), m) IN [n |-> n \div g, m |-> m \div g]

RatOfInt(n) == [n |-> n, m |-> 1]

RatPlus(a, b) == Rat(a.n * b.m + b.n * a.m, a.m * b.m)

RatMinus(a, b) == Rat(a.n * b.m - b.n * a.m, a.m * b.m)

RatTimes(a, b) == Rat(a.n * b.n, a.m * b.m)

\* d days, s seconds and n/m seconds, carried into the normal form
Time(d, s, n, m) ==
    LET secs == s + (n \div m)
    IN  [d |-> d + (secs \div SECONDS_PER_DAY), s |-> secs % SECONDS_PER_DAY, q |-> Rat(n % m, m)]

TimeOfSecs(t) == [d |-> t.d, s |-> t.s, q |-> RatOfInt(0)]

TimeIsNegative(t) == t.d < 0

TimeIsZero(t) == t.d = 0 /\ t.s = 0 /\ t.q.n = 0

TimePlus(a, b) ==
    LET m == (a.q.m \div Gcd(a.q.m, b.q.m)) * b.q.m
    IN  Time(a.d + b.d, a.s + b.s, a.q.n * (m \div a.q.m) + b.q.n * (m \div b.q.m), m)

TimeMinus(a, b) ==
    LET m == (a.q.m \div Gcd(a.q.m, b.q.m)) * b.q.m
    IN  Time(a.d - b.d, a.s - b.s, a.q.n * (m \div a.q.m) - b.q.n * (m \div b.q.m), m)

\* t * k / m for 0 <= k <= m
TimeScaled(t, k, m) ==
    LET days == t.d * k
        secs == (days % m) * SECONDS_PER_DAY + t.s * k
    IN  Time(days \div m, secs \div m, (secs % m) * t.q.m + t.q.n * k, t.q.m * m)

\* f0 + (f1 - f0) * k / m, the value np.interp computes between two anchors
TimeLerp(f0, f1, k, m) == TimePlus(f0, TimeScaled(TimeMinus(f1, f0), k, m))

RatLerp(f0, f1, k, m) == RatPlus(f0, RatTimes(RatMinus(f1, f0), Rat(k, m)))

\* the last index j of the increasing sequence xp with xp[j] <= x (0 if none)
RECURSIVE LastAtMost(_, _, _)
LastAtMost(xp, x, j) ==
    IF j = 0 \/ xp[j] <= x THEN j ELSE LastAtMost(xp, x, j - 1)

\* the value at the last anchor at or before x, not interpolated
interp_times_Stepped(x, xp, fp) ==
    LET j == LastAtMost(xp, x, Len(xp))
    IN  IF j = 0 THEN fp[1] ELSE fp[j]

\* the chord of the nearest pair of anchors continued outside the anchors
interp_times_Extrapolated(x, xp, fp) ==
    LET j == LastAtMost(xp, x, Len(xp))
        n == Len(xp)
    IN  IF n = 1 THEN fp[1]
        ELSE IF j = 0 THEN TimeMinus(fp[1], TimeScaled(TimeMinus(fp[2], fp[1]), xp[1] - x, xp[2] - xp[1]))
        ELSE IF j = n THEN TimeLerp(fp[n - 1], fp[n], x - xp[n - 1], xp[n] - xp[n - 1])
        ELSE IF xp[j] = x THEN fp[j]
        ELSE TimeLerp(fp[j], fp[j + 1], x - xp[j], xp[j + 1] - xp[j])

\* np.interp(x, xp, fp) at one point x, for increasing xp: fp[0] left of xp[0], fp[-1]
\* right of xp[-1], fp[j] at xp[j] and the chord from fp[j] to fp[j+1] in between;
\* for fp of times
interp_times(x, xp, fp) ==
    LET j == LastAtMost(xp, x, Len(xp))
    IN  IF j = 0 THEN fp[1]
        ELSE IF j = Len(xp) THEN fp[j]
        ELSE IF xp[j] = x THEN fp[j]
        ELSE TimeLerp(fp[j], fp[j + 1], x - xp[j], xp[j + 1] - xp[j])

\* the value of the last xp at or before x, with no blending
interp_Stepped(x, xp, fp) ==
    LET j == LastAtMost(xp, x, Len(xp))
    IN  IF j = 0 THEN fp[1] ELSE fp[j]

\* the same for fp of rationals
interp(x, xp, fp) ==
    LET j == LastAtMost(xp, x, Len(xp))
    IN  IF j = 0 THEN fp[1]
        ELSE IF j = Len(xp) THEN fp[j]
        ELSE IF xp[j] = x THEN fp[j]
        ELSE RatLerp(fp[j], fp[j + 1], x - xp[j], xp[j + 1] - xp[j])

(***************************************************************************)
(* The parsers of the header block and of one data sector.  A Python dict   *)
(* is a function from its keys; bytes and str are sequences of byte values. *)
(***************************************************************************)
EmptyDict == [key \in {} |-> 0]

HasKey(dict, key) == key \in DOMAIN dict

\* the dict with the keys of both, as after dict[key] = value for each key of more
Updated(dict, more) ==
    [key \in DOMAIN dict \cup DOMAIN more |-> IF key \in DOMAIN more THEN more[key] ELSE dict[key]]

\* data[lo:hi] of Python
Slice(data, lo, hi) ==
    LET stop == IF hi < Len(data) THEN hi ELSE Len(data)
    IN  IF lo >= stop THEN <<>> ELSE SubSeq(data, lo + 1, stop)

U8(data, ofs) == data[ofs + 1]

S16LE(data, ofs) == ToInt16(U16LE(data, ofs))

U32LE(data, ofs) == U32(U16LE(data, ofs + 2), U16LE(data, ofs))

\* _timestamp_string: "0", "-1" or the UTC date-time formatted from the time
timestamp_string(timestamp) ==
    IF TimeIsZero(timestamp) THEN [text |-> "0"]
    ELSE IF TimeIsNegative(timestamp) THEN [text |-> "-1"]
    ELSE [text |-> "%Y-%m-%d %H:%M:%S.%f", utc |-> timestamp]

\* 3200 / (1 << (15 - (rateCode & 0x0f)))
\* a decoding in which the low nibble 13 stands for 100 Hz
RateOfCode_ThirteenIsHundred(rateCode) == Rat(3200, 2 ^ (18 - (rateCode % 16)))

RateOfCode(rateCode) == Rat(3200, 2 ^ (15 - (rateCode % 16)))

\* int(frequency)
IntOfRat(r) == r.n \div r.m

HEX_DIGITS == <<"0", "1", "2", "3", "4", "5", "6", "7", "8", "9", "a", "b", "c", "d", "e", "f">>

\* hex(value)[2:] of a byte
hex(value) ==
    IF value < 16 THEN HEX_DIGITS[value + 1]
    ELSE HEX_DIGITS[(value \div 16) + 1] \o HEX_DIGITS[(value % 16) + 1]

\* str(data, 'ascii') raises UnicodeDecodeError on a byte above 127
IsAscii(data) == \A i \in 1..Len(data) : data[i] < 128

\* encString.rstrip('\x20\xff\x00')
rstrip(str) ==
    LET kept == {i \in 1..Len(str) : str[i] \notin {32, 255, 0}}
    IN  IF kept = {} THEN <<>>
        ELSE SubSeq(str, 1, CHOOSE i \in kept : \A k \in kept : k <= i)

(***************************************************************************)
(* The metadata of the header: URL-encoded name=value pairs joined by '&'.  *)
(* A str is held as the bytes of its UTF-8 encoding.                       *)
(***************************************************************************)
None == <<>>

\* the shorthand names and their expansions, as character codes
shorthand ==
    <<
    \* "_c": "Study Centre"
    <<<<95, 99>>,
      <<83, 116, 117, 100, 121, 32, 67, 101, 110, 116, 114, 101>>>>,
    \* "_s": "Study Code"
    <<<<95, 115>>,
      <<83, 116, 117, 100, 121, 32, 67, 111, 100, 101>>>>,
    \* "_i": "Investigator"
    <<<<95, 105>>,
      <<73, 110, 118, 101, 115, 116, 105, 103, 97, 116, 111, 114>>>>,
    \* "_x": "Exercise Code"
    <<<<95, 120>>,
      <<69, 120, 101, 114, 99, 105, 115, 101, 32, 67, 111, 100, 101>>>>,
    \* "_v": "Volunteer Num"
    <<<<95, 118>>,
      <<86, 111, 108, 117, 110, 116, 101, 101, 114, 32, 78, 117, 109>>>>,
    \* "_p": "Body Location"
    <<<<95, 112>>,
      <<66, 111, 100, 121, 32, 76, 111, 99, 97, 116, 105, 111, 110>>>>,
    \* "_so": "Setup Operator"
    <<<<95, 115, 111>>,
      <<83, 101, 116, 117, 112, 32, 79, 112, 101, 114, 97, 116, 111, 114>>>>,
    \* "_n": "Notes"
    <<<<95, 110>>,
      <<78, 111, 116, 101, 115>>>>,
    \* "_b": "Start time"
    <<<<95, 98>>,
      <<83, 116, 97, 114, 116, 32, 116, 105, 109, 101>>>>,
    \* "_e": "End time"
    <<<<95, 101>>,
      <<69, 110, 100, 32, 116, 105, 109, 101>>>>,
    \* "_ro": "Recovery Operator"
    <<<<95, 114, 111>>,
      <<82, 101, 99, 111, 118, 101, 114, 121, 32, 79, 112, 101, 114, 97, 116, 111, 114>>>>,
    \* "_r": "Retrieval Time"
    <<<<95, 114>>,
      <<82, 101, 116, 114, 105, 101, 118, 97, 108, 32, 84, 105, 109, 101>>>>,
    \* "_co": "Comments"
    <<<<95, 99, 111>>,
      <<67, 111, 109, 109, 101, 110, 116, 115>>>>,
    \* "_sc": "Subject Code"
    <<<<95, 115, 99>>,
      <<83, 117, 98, 106, 101, 99, 116, 32, 67, 111, 100, 101>>>>,
    \* "_se": "Sex"
    <<<<95, 115, 101>>,
      <<83, 101, 120>>>>,
    \* "_h": "Height"
    <<<<95, 104>>,
      <<72, 101, 105, 103, 104, 116>>>>,
    \* "_w": "Weight"
    <<<<95, 119>>,
      <<87, 101, 105, 103, 104, 116>>>>,
    \* "_ha": "Handedness"
    <<<<95, 104, 97>>,
      <<72, 97, 110, 100, 101, 100, 110, 101, 115, 115>>>>
    >>

\* shorthand.get(name, name)
shorthand_get(name) ==
    IF \E k \in 1..Len(shorthand) : shorthand[k][1] = name
    THEN shorthand[CHOOSE k \in 1..Len(shorthand) : shorthand[k][1] = name][2]
    ELSE name

RECURSIVE SortedSeq(_)
SortedSeq(set) ==
    IF set = {} THEN <<>>
    ELSE LET least == CHOOSE x \in set : \A y \in set : x <= y
         IN  <<least>> \o SortedSeq(set \ {least})

\* str.split(sep): the pieces between the occurrences of the character sep
split(str, sep) ==
    LET at  == SortedSeq({i \in 1..Len(str) : str[i] = sep})
        cut == <<0>> \o at \o <<Len(str) + 1>>
    IN  [k \in 1..(Len(at) + 1) |-> SubSeq(str, cut[k] + 1, cut[k + 1] - 1)]

\* one iteration of the loop of _urldecode
urldecode_char(st, char) ==
    IF char = 37 THEN [st EXCEPT !.nibbles = 2, !.value = 0]
    ELSE IF st.nibbles > 0
    THEN LET digit == IF char >= 97 /\ char <= 102 THEN char + 10 - 97
                      ELSE IF char >= 65 /\ char <= 70 THEN char + 10 - 65
                      ELSE IF char >= 48 /\ char <= 57 THEN char - 48
                      ELSE 0
             value == st.value * 16 + digit
         IN  [output  |-> IF st.nibbles = 1 THEN Append(st.output, value) ELSE st.output,
              nibbles |-> st.nibbles - 1,
              value   |-> value]
    ELSE IF char = 43 THEN [st EXCEPT !.output = Append(@, 32)]
    ELSE [st EXCEPT !.output = Append(@, char)]

\* the iterations lo+1 .. hi of the loop of _urldecode, in order
RECURSIVE urldecode_loop(_, _, _, _)
urldecode_loop(input, lo, hi, st) ==
    IF hi = lo THEN st
    ELSE IF hi - lo = 1 THEN urldecode_char(st, input[hi])
    ELSE LET mid   == (lo + hi) \div 2
             first == urldecode_loop(input, lo, mid, st)
         IN  IF first = first THEN urldecode_loop(input, mid, hi, first) ELSE first

\* the bytearray that _urldecode builds, before it is decoded as UTF-8
urldecode_bytes(input) ==
    urldecode_loop(input, 0, Len(input), [output |-> <<>>, nibbles |-> 0, value |-> 0]).output

IsContinuation(bytes, i) == i <= Len(bytes) /\ bytes[i] >= 128 /\ bytes[i] <= 191

\* whether bytes[i..] is well-formed UTF-8, so that output.decode('utf-8') returns
RECURSIVE Utf8Valid(_, _)
Utf8Valid(bytes, i) ==
    IF i > Len(bytes) THEN TRUE
    ELSE LET b == bytes[i]
         IN  IF b < 128 THEN Utf8Valid(bytes, i + 1)
             ELSE IF b >= 194 /\ b <= 223
             THEN IsContinuation(bytes, i + 1) /\ Utf8Valid(bytes, i + 2)
             ELSE IF b >= 224 /\ b <= 239
             THEN /\ IsContinuation(bytes, i + 1) /\ IsContinuation(bytes, i + 2)
                  /\ (b = 224 => bytes[i + 1] >= 160)
                  /\ (b = 237 => bytes[i + 1] <= 159)
                  /\ Utf8Valid(bytes, i + 3)
             ELSE IF b >= 240 /\ b <= 244
             THEN /\ IsContinuation(bytes, i + 1) /\ IsContinuation(bytes, i + 2)
                  /\ IsContinuation(bytes, i + 3)
                  /\ (b = 240 => bytes[i + 1] >= 144)
                  /\ (b = 244 => bytes[i + 1] <= 143)
                  /\ Utf8Valid(bytes, i + 4)
             ELSE FALSE

\* the name=value pairs of the metadata string, in order
metadata_pairs(data) ==
    LET nameValues == split(rstrip(data), 38)
    IN  [k \in 1..Len(nameValues) |->
            LET parts == split(nameValues[k], 61)
            IN  [name  |-> urldecode_bytes(parts[1]),
                 value |-> IF Len(parts) > 1 THEN Some(urldecode_bytes(parts[2])) ELSE None]]

\* _cwa_parse_metadata raises UnicodeDecodeError if the bytes are not ASCII or a decoded
\* name, or the value of a non-empty name, is not UTF-8
cwa_parse_metadata_raises(data) ==
    \/ ~IsAscii(data)
    \/ \E k \in 1..Len(metadata_pairs(data)) :
          LET pair == metadata_pairs(data)[k]
          IN  \/ ~Utf8Valid(pair.name, 1)
              \/ Len(pair.name) > 0 /\ pair.value # None /\ ~Utf8Valid(pair.value[1], 1)

\* the dictionary: the last value stored under each non-empty (expanded) name
cwa_parse_metadata(data) ==
    LET pairs == metadata_pairs(data)
        named == {k \in 1..Len(pairs) : Len(pairs[k].name) > 0}
        names == {shorthand_get(pairs[k].name) : k \in named}
    IN  [name \in names |->
            pairs[CHOOSE k \in named :
                    /\ shorthand_get(pairs[k].name) = name
                    /\ \A l \in named : shorthand_get(pairs[l].name) = name => l <= k].value]

\* the packet length is not looked at
cwa_header_valid_AnyLength(block) ==
    /\ Len(block) >= 512
    /\ U8(block, 0) = 77 /\ U8(block, 1) = 68

\* the header is parsed only if the block has 512 bytes, starts "MD" and is long enough
cwa_header_valid(block) ==
    /\ Len(block) >= 512
    /\ U8(block, 0) = 77 /\ U8(block, 1) = 68
    /\ U16LE(block, 2) >= 508

\* _parse_cwa_header raises what _cwa_parse_metadata raises
cwa_header_raises(block) == cwa_header_valid(block) /\ cwa_parse_metadata_raises(Slice(block, 64, 512))

parse_cwa_header(block) ==
    IF ~cwa_header_valid(block) THEN EmptyDict
    ELSE
    LET hardwareType  == U8(block, 4)
        deviceIdUpper == U16LE(block, 11)
        loggingStart  == parse_timestamp(U32LE(block, 13))
        loggingEnd    == parse_timestamp(U32LE(block, 17))
        lastChange    == parse_timestamp(U32LE(block, 37))
        sensorConfig  == U8(block, 35)
        rateCode      == U8(block, 36)
    IN  [packetLength     |-> U16LE(block, 2),
         hardwareType     |-> hardwareType,
         deviceType       |-> IF hardwareType \in {0, 255, 23} THEN "AX3"
                              ELSE IF hardwareType = 100 THEN "AX6"
                              ELSE hex(hardwareType),
         deviceId         |-> U32(IF deviceIdUpper # 65535 THEN deviceIdUpper ELSE 0, U16LE(block, 5)),
         sessionId        |-> U32LE(block, 7),
         loggingStart     |-> loggingStart,
         loggingEnd       |-> loggingEnd,
         loggingCapacity  |-> U32LE(block, 21),
         flashLed         |-> IF U8(block, 35) = 255 THEN 0 ELSE U8(block, 35),
         gyroRange        |-> IF sensorConfig # 0 /\ sensorConfig # 255
                              THEN Rat(8000, 2 ^ (sensorConfig % 16)) ELSE RatOfInt(0),
         lastChange       |-> lastChange,
         firmwareRevision |-> U8(block, 41),
         metadata         |-> cwa_parse_metadata(Slice(block, 64, 512)),
         loggingStartTime |-> timestamp_string(TimeOfSecs(loggingStart)),
         loggingEndTime   |-> timestamp_string(TimeOfSecs(loggingEnd)),
         lastChangeTime   |-> timestamp_string(TimeOfSecs(lastChange)),
         sampleRate       |-> RateOfCode(rateCode),
         accelRange       |-> Shr(16, rateCode \div 64)]

\* the sector is parsed only if it has 512 bytes, starts "AX", has length 508 and sums to zero
cwa_data_valid(block) ==
    /\ Len(block) >= 512
    /\ U8(block, 0) = 65 /\ U8(block, 1) = 88
    /\ U16LE(block, 2) = 508
    /\ checksum(Slice(block, 0, 512)) = 0

\* data['magRange'] = magRange reads a name that is never bound
cwa_data_raises(block) == cwa_data_valid(block) /\ U8(block, 25) \div 16 >= 9

parse_cwa_data(block) ==
    IF ~cwa_data_valid(block) THEN EmptyDict
    ELSE
    LET deviceFractional == U16LE(block, 4)
        seconds          == parse_timestamp(U32LE(block, 14))
        light            == U16LE(block, 18)
        temperature      == U16LE(block, 20)
        battery          == U8(block, 23)
        rateCode         == U8(block, 24)
        numAxesBPS       == U8(block, 25)
        frequency        == RateOfCode(rateCode)
        fractional       == BitAnd(deviceFractional, 32768) # 0
        timeFractional   == IF fractional THEN Shl(BitAnd(deviceFractional, 32767), 1) ELSE 0
        timestampOffset  == S16LE(block, 26)
                            + (IF fractional THEN Shr(timeFractional * IntOfRat(frequency), 16) ELSE 0)
        timestamp        == Time(seconds.d, seconds.s, timeFractional, 65536)
        channels         == BitAnd(Shr(numAxesBPS, 4), 15)
        bytesPerAxis     == BitAnd(numAxesBPS, 15)
        bytesPerSample   == IF bytesPerAxis = 0 /\ channels = 3 THEN 4
                            ELSE IF bytesPerAxis > 0 /\ channels > 0 THEN bytesPerAxis * channels
                            ELSE 4
        accelAxis        == IF channels >= 6 THEN 3 ELSE IF channels >= 3 THEN 0 ELSE -1
        gyroAxis         == IF channels >= 6 THEN 0 ELSE -1
        gyroScale        == BitAnd(Shr(light, 10), 7)
        gyroRange        == IF gyroScale # 0 THEN 8000 \div Shl(1, gyroScale) ELSE 2000
        common           ==
            [deviceFractional |-> deviceFractional,
             sessionId        |-> U32LE(block, 6),
             sequenceId       |-> U32LE(block, 10),
             light            |-> BitAnd(light, 1023),
             temperature      |-> Rat(temperature * 75 - 50 * 256, 256),
             events           |-> U8(block, 22),
             battery          |-> Rat((battery + 512) * 6000, 1024 * 1000),
             rateCode         |-> rateCode,
             numAxesBPS       |-> numAxesBPS,
             sampleCount      |-> U16LE(block, 28),
             frequency        |-> frequency,
             timestamp        |-> timestamp,
             timestampOffset  |-> timestampOffset,
             timestampTime    |-> timestamp_string(timestamp),
             channels         |-> channels,
             bytesPerAxis     |-> bytesPerAxis,
             bytesPerSample   |-> bytesPerSample,
             samplesPerSector |-> 480 \div bytesPerSample]
        accel            ==
            IF accelAxis >= 0
            THEN [accelAxis  |-> accelAxis,
                  accelRange |-> IF rateCode # 0 THEN Shr(16, Shr(rateCode, 6)) ELSE 16,
                  accelUnit  |-> Shl(1, 8 + BitAnd(Shr(light, 13), 7))]
            ELSE EmptyDict
        gyro             ==
            IF gyroAxis >= 0
            THEN [gyroAxis |-> gyroAxis, gyroRange |-> gyroRange, gyroUnit |-> Rat(32768, gyroRange)]
            ELSE EmptyDict
    IN  Updated(Updated(common, accel), gyro)

(***************************************************************************)
(* Inputs of the decoders.                                                 *)
(***************************************************************************)
LowEdge(max) == 0..EdgeWidth

HighEdge(max) == (max - EdgeWidth)..max

\* the packed date-time of the device: YYYYYYMM MMDDDDDh hhhhmmmm mmssssss
PackTimestamp(y, mo, d, h, mi, s) ==
    U32(y * 1024 + mo * 64 + d * 2 + (h \div 16), (h % 16) * 4096 + mi * 64 + s)

TimesOfDay ==
    UNION { { <<k, k, k>>, <<23 - k, 59 - k, 59 - k>>,
              <<24 + k, 0, 0>>, <<0, 60 + k, 0>>, <<0, 0, 60 + k>> } : k \in 0..EdgeWidth }

TsInputs ==
    { PackTimestamp(y, mo, d, t[1], t[2], t[3]) :
        y \in 0..63, mo \in 0..15, d \in {0, 1, 28, 29, 30, 31}, t \in TimesOfDay }
    \cup {U32_ZERO, U32_ONES}

TenBitEdges == LowEdge(1023) \cup ((511 - EdgeWidth)..(512 + EdgeWidth)) \cup HighEdge(1023)

\* eezzzzzz zzzzyyyy yyyyyyxx xxxxxxxx
PackDword(e, x, y, z) == U32(e * 16384 + z * 16 + (y \div 64), (y % 64) * 1024 + x)

ByteEdges == LowEdge(255) \cup {127, 128} \cup HighEdge(255)

\* a block of `fill` bytes whose first and last 16-bit words are (b0, b1) and (b2, b3)
BlockOf(fill, b0, b1, b2, b3) ==
    [i \in 1..SECTOR_SIZE |->
        CASE i = 1 -> b0 [] i = 2 -> b1 [] i = SECTOR_SIZE - 1 -> b2 [] i = SECTOR_SIZE -> b3
          [] OTHER -> fill]

(***************************************************************************)
(* The decoders applied to their inputs.                                   *)
(***************************************************************************)
TsIdle == ts_value = U32_ZERO /\ ts_slow = Unset /\ ts_fast = Unset

DwIdle ==
    /\ dw_in = [e |-> 0, x |-> 0, y |-> 0, z |-> 0] /\ dw_value = U32_ZERO
    /\ dw_axes = Unset /\ dw_bulk = Unset

CkIdle == ck_block = <<>> /\ ck_scalar = Unset /\ ck_bulk = Unset

\* no CalcSvm is iterated
SvIdle ==
    /\ sv_input = <<>> /\ sv_read = 0
    /\ sv_options = [epoch_size |-> 60, alignment |-> <<>>]
    /\ sv_self = <<>>
    /\ sv_pc = "idle"
    /\ sv_output = <<>>
    /\ sv_rows = [current |-> <<>>, emitted |-> <<>>]

\* no MultiData is being made
MdIdle ==
    /\ md_pc = "idle" /\ md_error = ""
    /\ md_self = [inner_data |-> "unset", potentially_zipped_file |-> "unset"]
    /\ md_calls = <<>>

\* no PotentiallyZippedFile is being made
ZfIdle ==
    /\ zf_source = [name |-> <<>>, is_zipfile |-> FALSE, entries |-> <<>>]
    /\ zf_filters = [list |-> TRUE, value |-> <<>>]
    /\ zf_pc = "idle" /\ zf_error = ""
    /\ zf_self = [filters |-> <<>>, archive_file |-> <<>>, temp_file |-> <<>>]
    /\ zf_matching = <<>> /\ zf_index = 0
    /\ zf_entered = Unset
    /\ zf_disk = {} /\ zf_removed = <<>>

\* no file is being loaded
LdIdle ==
    /\ file = <<>> /\ options = <<>> /\ pc = "idle" /\ error = ""
    /\ fh = "None" /\ full_buffer = "None"
    /\ header = <<>> /\ data_offset = 0 /\ data_format = <<>>
    /\ df = <<>> /\ labels = <<>> /\ sample_values = <<>> /\ all_segments = Unset
    /\ closing = [calls |-> <<>>, fh_closes |-> 0, buffer_closes |-> 0]

TsInit ==
    /\ ts_value \in TsInputs
    /\ ts_slow = Unset
    /\ ts_fast = Unset
    /\ DwIdle /\ CkIdle /\ LdIdle /\ ZfIdle /\ SvIdle /\ MdIdle

\* header fields and the single-sector parser decode with _parse_timestamp
DecodeSlow ==
    /\ ts_slow = Unset
    /\ ts_slow' = Some(parse_timestamp(ts_value))
    /\ UNCHANGED <<ts_value, ts_fast, dw_vars, ck_vars, ld_vars, zf_vars, sv_vars, md_vars>>

\* _parse_times decodes with np.vectorize(_fast_timestamp, otypes=[np.uint32])
DecodeFast ==
    /\ ts_fast = Unset
    /\ ts_fast' = Some(ToUint32(fast_timestamp(ts_value)))
    /\ UNCHANGED <<ts_value, ts_slow, dw_vars, ck_vars, ld_vars, zf_vars, sv_vars, md_vars>>

TsNext == DecodeSlow \/ DecodeFast

SpecTs == TsInit /\ [][TsNext]_vars

DwInit ==
    /\ dw_in \in [e : 0..3, x : TenBitEdges, y : TenBitEdges, z : TenBitEdges]
    /\ dw_value = PackDword(dw_in.e, dw_in.x, dw_in.y, dw_in.z)
    /\ dw_axes = Unset /\ dw_bulk = Unset
    /\ TsIdle /\ CkIdle /\ LdIdle /\ ZfIdle /\ SvIdle /\ MdIdle

Unpack ==
    /\ dw_axes = Unset
    /\ dw_axes' = Some(dword_unpack(dw_value))
    /\ UNCHANGED <<dw_in, dw_value, dw_bulk, ts_vars, ck_vars, ld_vars, zf_vars, sv_vars, md_vars>>

\* np.uint32 subtraction and left shift, on [hi, lo]
U32Minus_Saturating(value, small) ==
    IF value.hi = 0 /\ value.lo < small THEN U32(0, 0)
    ELSE IF value.lo >= small THEN U32(value.hi, value.lo - small)
    ELSE U32(value.hi - 1, value.lo + 65536 - small)

U32Minus(value, small) ==
    IF value.lo >= small THEN U32(value.hi, value.lo - small)
    ELSE U32((value.hi + 65535) % 65536, value.lo + 65536 - small)

U32Shl(value, n) ==
    U32((Shl(value.hi, n) + (Shl(value.lo, n) \div 65536)) % 65536, Shl(value.lo, n) % 65536)

\* ((((packed >> shift) & 0x3ff) ^ 0x0200) - 0x0200) << exponent in np.uint32, stored in an
\* np.int16 column (the low 16 bits are kept)
unpack_axis(packed, shift) ==
    LET exponent == U32Shr(packed, 30)
        field    == BitXor(U32Field(packed, shift, 1023), 512)
    IN  ToInt16(U32Shl(U32Minus(U32(0, field), 512), exponent).lo)

\* the row of raw_samples that _interpret_samples makes of one packed value
UnpackBulk ==
    /\ dw_bulk = Unset
    /\ dw_bulk' = Some(<<unpack_axis(dw_value, 0), unpack_axis(dw_value, 10),
                         unpack_axis(dw_value, 20)>>)
    /\ UNCHANGED <<dw_in, dw_value, dw_axes, ts_vars, ck_vars, ld_vars, zf_vars, sv_vars, md_vars>>

DwNext == Unpack \/ UnpackBulk

SpecDw == DwInit /\ [][DwNext]_vars

CkInit ==
    /\ \E fill \in {0, 255} : \E b0 \in ByteEdges, b1 \in ByteEdges, b2 \in {0, 127, 128, 255}, b3 \in {0, 127, 128, 255} :
          ck_block = BlockOf(fill, b0, b1, b2, b3)
    /\ ck_scalar = Unset
    /\ ck_bulk = Unset
    /\ TsIdle /\ DwIdle /\ LdIdle /\ ZfIdle /\ SvIdle /\ MdIdle

ScalarChecksum ==
    /\ ck_scalar = Unset
    /\ ck_scalar' = Some(checksum(ck_block))
    /\ UNCHANGED <<ck_block, ck_bulk, ts_vars, dw_vars, ld_vars, zf_vars, sv_vars, md_vars>>

BulkChecksum ==
    /\ ck_bulk = Unset
    /\ ck_bulk' = Some(checksum_sum(ck_block, 0))
    /\ UNCHANGED <<ck_block, ck_scalar, ts_vars, dw_vars, ld_vars, zf_vars, sv_vars, md_vars>>

CkNext == ScalarChecksum \/ BulkChecksum

SpecCk == CkInit /\ [][CkNext]_vars

(***************************************************************************)
(* Files: a 1024-byte header block followed by 512-byte data sectors,      *)
(* written from their fields.                                              *)
(***************************************************************************)
\* the most data sectors a file has
MaxSectors == 3

\* byte k (0 the lowest) of a 16-bit word and of a 32-bit value
ByteOf(word, k) == (word \div (256 ^ k)) % 256

ByteOfU32(value, k) == IF k < 2 THEN ByteOf(value.lo, k) ELSE ByteOf(value.hi, k - 2)

HeaderByte(h, o) ==
    CASE o \in 0..1 -> h.magic[o + 1]
      [] o \in 2..3 -> ByteOf(h.packetLength, o - 2)
      [] o = 4 -> h.hardwareType
      [] o \in 5..6 -> ByteOf(h.deviceId, o - 5)
      [] o \in 7..10 -> ByteOfU32(h.sessionId, o - 7)
      [] o \in 11..12 -> 255
      [] o \in 13..16 -> ByteOfU32(h.loggingStart, o - 13)
      [] o \in 17..20 -> ByteOfU32(h.loggingEnd, o - 17)
      [] o \in 21..25 -> 0
      [] o = 26 -> h.flashLed
      [] o = 35 -> h.sensorConfig
      [] o = 36 -> h.rateCode
      [] o \in 37..40 -> ByteOfU32(h.lastChange, o - 37)
      [] o = 41 -> h.firmwareRevision
      [] o \in 64..511 -> IF o - 64 < Len(h.metadata) THEN h.metadata[o - 64 + 1] ELSE h.padding
      [] OTHER -> 255

\* the 16-bit words of the payload of the sector tagged tag: no two sectors share a word
PayloadWord(tag, k) == (tag * 21001 + k * 7) % 65536

\* word k < 255 of a sector written from its fields
SectorWord(f, k) ==
    CASE k = 0 -> f.magic
      [] k = 1 -> f.length
      [] k = 2 -> f.deviceFractional
      [] k = 3 -> f.sessionId.lo
      [] k = 4 -> f.sessionId.hi
      [] k = 5 -> f.sequenceId.lo
      [] k = 6 -> f.sequenceId.hi
      [] k = 7 -> f.timestamp.lo
      [] k = 8 -> f.timestamp.hi
      [] k = 9 -> f.light
      [] k = 10 -> f.temperature
      [] k = 11 -> f.events + 256 * f.battery
      [] k = 12 -> f.rateCode + 256 * f.numAxesBPS
      [] k = 13 -> f.timestampOffset % 65536
      [] k = 14 -> f.sampleCount
      [] OTHER -> PayloadWord(f.tag, k - 15)

RECURSIVE SumOfWords(_, _, _)
SumOfWords(f, lo, hi) ==
    IF hi - lo = 1 THEN SectorWord(f, lo)
    ELSE (SumOfWords(f, lo, (lo + hi) \div 2) + SumOfWords(f, (lo + hi) \div 2, hi)) % 65536

\* the last word of the sector: what makes the words sum to zero, plus f.checksumError
ChecksumWord(f) == (65536 - SumOfWords(f, 0, 255) + f.checksumError) % 65536

SectorBytes(f) ==
    LET last == ChecksumWord(f)
    IN  [i \in 1..SECTOR_SIZE |->
            LET k    == (i - 1) \div 2
                word == IF k = 255 THEN last ELSE SectorWord(f, k)
            IN  ByteOf(word, (i - 1) % 2)]

HEADER_SIZE == 1024

FileBytes(h, sectors) ==
    LET blocks == [j \in 1..Len(sectors) |-> SectorBytes(sectors[j])]
    IN  [i \in 1..(HEADER_SIZE + SECTOR_SIZE * Len(sectors)) |->
            IF i <= HEADER_SIZE THEN HeaderByte(h, i - 1)
            ELSE blocks[((i - 1 - HEADER_SIZE) \div SECTOR_SIZE) + 1][((i - 1 - HEADER_SIZE) % SECTOR_SIZE) + 1]]

\* the header of a recording: "always" start and end times, or dates, or impossible dates
HeaderKinds == {"always", "dated", "undated"}

HeaderOf(kind) ==
    [magic            |-> <<77, 68>>,
     packetLength     |-> HEADER_SIZE - 4,
     hardwareType     |-> 23,
     deviceId         |-> 12345,
     sessionId        |-> U32(0, 1),
     loggingStart     |-> CASE kind = "always" -> U32_ZERO
                            [] kind = "dated" -> PackTimestamp(20, 1, 1, 0, 0, 0)
                            [] OTHER -> PackTimestamp(23, 2, 31, 0, 0, 0),
     loggingEnd       |-> CASE kind = "always" -> U32_ONES
                            [] kind = "dated" -> PackTimestamp(20, 1, 8, 0, 0, 0)
                            [] OTHER -> PackTimestamp(20, 13, 1, 0, 0, 0),
     flashLed         |-> 0,
     sensorConfig     |-> 0,
     rateCode         |-> 74,
     lastChange       |-> IF kind = "undated" THEN PackTimestamp(20, 1, 1, 24, 0, 0)
                          ELSE PackTimestamp(19, 12, 31, 23, 59, 59),
     firmwareRevision |-> 50,
     metadata         |-> <<>>,
     padding          |-> 32]

WORD_PACKING == 50

DWORD_PACKING == 48

\* samples a full sector holds: 120 packed DWORDs, or 480 bytes of samples of
\* (packing \div 16) axes of (packing % 16) bytes
FullCount(packing) ==
    IF packing = DWORD_PACKING THEN 120
    ELSE IF packing % 16 > 0 /\ packing \div 16 > 0 THEN 480 \div ((packing % 16) * (packing \div 16))
    ELSE 120

\* sector j (from 0) of a recording at 100 Hz: one a second from 2020-01-01 00:00:00
SectorOf(j, packing, count) ==
    [magic            |-> 22593,
     length           |-> 508,
     deviceFractional |-> 0,
     sessionId        |-> U32(0, 1),
     sequenceId       |-> U32(0, j),
     timestamp        |-> PackTimestamp(20, 1, 1, 0, 0, j),
     light            |-> 300,
     temperature      |-> 280,
     events           |-> 0,
     battery          |-> 200,
     rateCode         |-> 74,
     numAxesBPS       |-> packing,
     timestampOffset  |-> 0,
     sampleCount      |-> count,
     tag              |-> j + 1,
     checksumError    |-> 0]

\* the ways one sector of a file differs from the others
Defects == {"checksum", "magic", "length", "packing", "rate", "partial", "date", "fractional"}

Defective(f, defect) ==
    CASE defect = "checksum" -> [f EXCEPT !.checksumError = 1]
      [] defect = "magic" -> [f EXCEPT !.magic = 22849]
      [] defect = "length" -> [f EXCEPT !.length = 507]
      [] defect = "packing" ->
            [f EXCEPT !.numAxesBPS = IF @ = WORD_PACKING THEN DWORD_PACKING ELSE WORD_PACKING]
      [] defect = "rate" -> [f EXCEPT !.rateCode = 73]
      [] defect = "partial" -> [f EXCEPT !.sampleCount = @ \div 2]
      [] defect = "date" -> [f EXCEPT !.timestamp = PackTimestamp(23, 2, 31, 0, 0, 0)]
      [] defect = "fractional" -> [f EXCEPT !.deviceFractional = 49152]
      [] OTHER -> f

\* a file of n sectors of `count` samples, sector `at` (none if 0) defective
FileOf(kind, n, packing, count, at, defect) ==
    FileBytes(HeaderOf(kind),
              [j \in 1..n |-> IF j = at THEN Defective(SectorOf(j - 1, packing, count), defect)
                              ELSE SectorOf(j - 1, packing, count)])

Options(include_time) ==
    [include_time |-> include_time, include_accel |-> TRUE, include_gyro |-> TRUE,
     include_mag |-> TRUE, include_light |-> FALSE, include_temperature |-> FALSE]

\* CwaData(filename, ...) is entered: fh and full_buffer are None, nothing is parsed
Entered ==
    /\ pc = "read_data"
    /\ error = ""
    /\ fh = "None"
    /\ full_buffer = "None"
    /\ header = EmptyDict
    /\ data_offset = 0
    /\ data_format = EmptyDict
    /\ df = <<>>
    /\ labels = <<>>
    /\ sample_values = <<>>
    /\ all_segments = Unset
    /\ closing = [calls |-> <<>>, fh_closes |-> 0, buffer_closes |-> 0]
    /\ TsIdle /\ DwIdle /\ CkIdle /\ ZfIdle /\ SvIdle /\ MdIdle

\* every choice of the six include flags
AllOptions ==
    [include_time : BOOLEAN, include_accel : BOOLEAN, include_gyro : BOOLEAN,
     include_mag : BOOLEAN, include_light : BOOLEAN, include_temperature : BOOLEAN]

\* CwaData(filename, include_time=...) is entered: fh and full_buffer are None
Init ==
    /\ \E n \in 1..MaxSectors, kind \in HeaderKinds, packing \in {WORD_PACKING, DWORD_PACKING} :
       \E count \in {FullCount(packing), 40}, at \in 0..n :
       \E defect \in (IF at = 0 THEN {"none"} ELSE Defects) :
          file = FileOf(kind, n, packing, count, at, defect)
    /\ options \in {Options(include_time) : include_time \in BOOLEAN}
    /\ pc = "read_data"
    /\ error = ""
    /\ fh = "None"
    /\ full_buffer = "None"
    /\ header = EmptyDict
    /\ data_offset = 0
    /\ data_format = EmptyDict
    /\ df = <<>>
    /\ labels = <<>>
    /\ sample_values = <<>>
    /\ all_segments = Unset
    /\ closing = [calls |-> <<>>, fh_closes |-> 0, buffer_closes |-> 0]
    /\ TsIdle /\ DwIdle /\ CkIdle /\ ZfIdle /\ SvIdle /\ MdIdle

\* packing bytes (axes in the top nibble, bytes per axis in the bottom one): the packed
\* DWORD 0x30; the WORD packings of 3, 6, 9, 7 and 1 axes; one byte per axis for 3 and
\* 9 axes; 2 axes without a width; no axes
PackingBytes == {48, 50, 98, 146, 114, 18, 49, 145, 32, 2}

\* CwaData(filename, include_...) is entered on a file of full sectors of one packing
InitFormats ==
    /\ \E n \in {1, MaxSectors}, packing \in PackingBytes :
          file = FileOf("dated", n, packing, FullCount(packing), 0, "none")
    /\ options \in AllOptions
    /\ Entered

\* where in its sector the whole second of the timestamp falls: at its first sample, at
\* its eighth, or at a place that differs from sector to sector (-3, 12, 6, 0, 15, ...)
OffsetPatterns == {"first", "eighth", "mixed"}

OffsetOf(pattern, j) ==
    CASE pattern = "first" -> 0
      [] pattern = "eighth" -> 7
      [] OTHER -> ((j * 5) % 7) * 3 - 3

\* what changes in a stream of sectors at one of them: the sequence ids jump by 5 or the
\* session id changes from that sector on, or that sector alone has another packing or
\* a bad checksum
StreamChanges == {"gap", "session", "packing", "checksum"}

\* sector j (from 0) of a stream of full sectors that changes at sector `at` (from 1)
StreamSector(j, packing, pattern, at, change) ==
    LET f == [SectorOf(j, packing, FullCount(packing)) EXCEPT
                 !.timestampOffset = OffsetOf(pattern, j)]
    IN  IF at = 0 \/ j + 1 < at THEN f
        ELSE IF change = "gap" THEN [f EXCEPT !.sequenceId = U32(0, j + 5)]
        ELSE IF change = "session" THEN [f EXCEPT !.sessionId = U32(0, 2)]
        ELSE IF j + 1 = at THEN Defective(f, change)
        ELSE f

StreamOf(n, packing, pattern, at, change) ==
    FileBytes(HeaderOf("dated"), [j \in 1..n |-> StreamSector(j - 1, packing, pattern, at, change)])

\* CwaData(filename, include_time=...) is entered on a stream of sectors
InitStream ==
    /\ \E n \in 1..MaxSectors, packing \in {WORD_PACKING, DWORD_PACKING} :
       \E pattern \in OffsetPatterns, at \in 0..n :
       \E change \in (IF at = 0 THEN {"none"} ELSE StreamChanges) :
          file = StreamOf(n, packing, pattern, at, change)
    /\ options \in {Options(include_time) : include_time \in BOOLEAN}
    /\ Entered

\* the first two bytes of a header block: "MD", and "ME" and "AX" which are not
Magics == {<<77, 68>>, <<77, 69>>, <<65, 88>>}

\* packet lengths of a header: one too short, the least one, and lengths at and next to
\* a multiple of the sector size
PacketLengths == {507, 508, 512, 513, 1020}

\* metadata texts: none, and "_c=1&x=%41+b"
MetadataTexts == {<<>>, <<95, 99, 61, 49, 38, 120, 61, 37, 52, 49, 43, 98>>}

\* the bytes that fill the rest of the 448 bytes of metadata: space, NUL, 0xFF
Paddings == {32, 0, 255}

HeaderVariant(magic, packetLength, metadata, padding) ==
    [HeaderOf("dated") EXCEPT !.magic = magic, !.packetLength = packetLength,
                              !.metadata = metadata, !.padding = padding]

\* the bytes the header of a file takes: its packet rounded up to whole sectors
HeaderRegion(h) ==
    LET whole == ((h.packetLength + SECTOR_SIZE - 1) \div SECTOR_SIZE) * SECTOR_SIZE
    IN  IF whole < SECTOR_SIZE THEN SECTOR_SIZE ELSE whole

\* the lengths a file with this header is cut to: empty, a byte short of a header block,
\* and a byte short of, exactly, a byte beyond one data sector, and two data sectors
Sizes(h) ==
    {0, SECTOR_SIZE - 1, HeaderRegion(h) + SECTOR_SIZE - 1, HeaderRegion(h) + SECTOR_SIZE,
     HeaderRegion(h) + SECTOR_SIZE + 1, HeaderRegion(h) + 2 * SECTOR_SIZE}

\* the first `size` bytes of the header h followed by full WORD-packed sectors
HeaderFile(h, size) ==
    LET blocks == [j \in 1..2 |-> SectorBytes(SectorOf(j - 1, WORD_PACKING, FullCount(WORD_PACKING)))]
        region == HeaderRegion(h)
    IN  [i \in 1..size |->
            IF i <= region THEN HeaderByte(h, i - 1)
            ELSE blocks[((i - 1 - region) \div SECTOR_SIZE) + 1][((i - 1 - region) % SECTOR_SIZE) + 1]]

\* how the light and temperature fields vary over the sectors of a stream: not at all,
\* rising and falling, or with the bits above the low ten set
SensorPatterns == {"steady", "swinging", "scaled"}

LightOf(pattern, j) ==
    CASE pattern = "steady" -> 300
      [] pattern = "swinging" -> 100 + 240 * (j % 2) + 7 * j
      [] OTHER -> 64512 + ((j * 397) % 1024)

TemperatureOf(pattern, j) ==
    CASE pattern = "steady" -> 280
      [] pattern = "swinging" -> 400 - 96 * (j % 2) - 5 * j
      [] OTHER -> 1024 + ((j * 211 + 30) % 1024)

\* sector j (from 0) of a stream of full sectors whose timestamps are 0, 3 and 12 seconds
\* after the first
SensorSector(j, packing, pattern) ==
    [SectorOf(j, packing, FullCount(packing)) EXCEPT
        !.timestamp = PackTimestamp(20, 1, 1, 0, 0, 3 * j * j),
        !.light = LightOf(pattern, j),
        !.temperature = TemperatureOf(pattern, j)]

SensorStream(n, packing, pattern) ==
    FileBytes(HeaderOf("dated"), [j \in 1..n |-> SensorSector(j - 1, packing, pattern)])

\* CwaData(filename, include_time=..., include_light=..., include_temperature=...) is
\* entered on such a stream
InitSensors ==
    /\ \E n \in 1..MaxSectors, packing \in {WORD_PACKING, DWORD_PACKING} :
       \E pattern \in SensorPatterns :
          file = SensorStream(n, packing, pattern)
    /\ \E time \in BOOLEAN, light \in BOOLEAN, temperature \in BOOLEAN :
          options = [Options(time) EXCEPT !.include_light = light,
                                          !.include_temperature = temperature]
    /\ Entered

\* sensor configuration bytes: accelerometer only (0x00, 0xff), the gyro ranges 2..6,
\* with and without the magnetometer nibble, and a magnetometer nibble alone
SensorConfigs == {0, 255, 1, 2, 3, 4, 5, 6, 15, 16, 18, 240, 246}

\* rate codes: the low nibbles 6..15 at +-8g, and 100 Hz at +-16g, +-4g and +-2g
RateCodes == (70..79) \cup {10, 138, 202}

\* a header with the given sensor configuration and rate code, then one full sector of
\* WORD samples at that rate
ConfigFile(sensorConfig, rateCode) ==
    FileBytes([HeaderOf("dated") EXCEPT !.sensorConfig = sensorConfig, !.rateCode = rateCode],
              <<[SectorOf(0, WORD_PACKING, FullCount(WORD_PACKING)) EXCEPT !.rateCode = rateCode]>>)

InitConfig ==
    /\ \E sensorConfig \in SensorConfigs, rateCode \in RateCodes :
          file = ConfigFile(sensorConfig, rateCode)
    /\ options = Options(TRUE)
    /\ Entered

\* CwaData(filename) is entered on a file with one of these headers, cut to a length
InitHeaders ==
    /\ \E magic \in Magics, packetLength \in PacketLengths :
       \E metadata \in MetadataTexts, padding \in Paddings :
       \E size \in Sizes(HeaderVariant(magic, packetLength, metadata, padding)) :
          file = HeaderFile(HeaderVariant(magic, packetLength, metadata, padding), size)
    /\ options = Options(TRUE)
    /\ Entered

(***************************************************************************)
(* The loader: the steps of CwaData.__init__ on a file, then close().      *)
(***************************************************************************)
\* the step raises: __init__ is left, and no caller holds the object
Raise(exception) == pc' = "raised" /\ error' = exception

\* _read_data: open the file and map it; mmap refuses an empty file, which is then read
ReadData ==
    /\ pc = "read_data"
    /\ fh' = "open"
    /\ full_buffer' = IF Len(file) = 0 THEN "bytes" ELSE "mmap"
    /\ pc' = "parse_header"
    /\ UNCHANGED <<file, options, error, header, data_offset, data_format, df, labels, sample_values,
                   all_segments, closing>>
    /\ UNCHANGED <<ts_vars, dw_vars, ck_vars, zf_vars, sv_vars, md_vars>>

\* (packetLength + SECTOR_SIZE - 1) // SECTOR_SIZE * SECTOR_SIZE
offset_of_data(packetLength) == ((packetLength + SECTOR_SIZE - 1) \div SECTOR_SIZE) * SECTOR_SIZE

first_sector_Next(buffer, offset) == Slice(buffer, offset + SECTOR_SIZE, offset + 2 * SECTOR_SIZE)

\* self.full_buffer[self.data_offset:self.data_offset + SECTOR_SIZE]
first_sector(buffer, offset) == Slice(buffer, offset, offset + SECTOR_SIZE)

data_format_ok(format) ==
    ~(\/ ~HasKey(format, "channels") \/ format["channels"] < 1
      \/ ~HasKey(format, "samplesPerSector") \/ format["samplesPerSector"] <= 0)

\* _parse_header: the header block, the offset of the data, the format of the first sector
ParseHeader ==
    /\ pc = "parse_header"
    /\ IF cwa_header_raises(file)
       THEN /\ Raise("UnicodeDecodeError")
            /\ UNCHANGED <<header, data_offset, data_format>>
       ELSE /\ header' = parse_cwa_header(file)
            /\ IF ~HasKey(header', "packetLength")
               THEN /\ data_offset' = 0
                    /\ Raise("File header parsing error")
                    /\ UNCHANGED data_format
               ELSE /\ data_offset' = offset_of_data(header'["packetLength"])
                    /\ IF Len(file) - data_offset' >= SECTOR_SIZE
                       THEN IF cwa_data_raises(first_sector(file, data_offset'))
                            THEN /\ data_format' = EmptyDict
                                 /\ Raise("NameError")
                            ELSE /\ data_format' = parse_cwa_data(first_sector(file, data_offset'))
                                 /\ IF data_format_ok(data_format')
                                    THEN pc' = "parse_data" /\ UNCHANGED error
                                    ELSE Raise("Unexpected data format")
                       ELSE /\ data_format' = EmptyDict
                            /\ Raise("File has no data")
    /\ UNCHANGED <<file, options, fh, full_buffer, df, labels, sample_values, all_segments, closing>>
    /\ UNCHANGED <<ts_vars, dw_vars, ck_vars, zf_vars, sv_vars, md_vars>>

\* self.full_buffer[self.data_offset:]
data_buffer == Slice(file, data_offset, Len(file))

\* the fields of the structured dtype dt_cwa for the sector at byte offset base (the 480
\* payload bytes of raw_data_buffer stay in the buffer, where _interpret_samples reads them)
np_data(buffer, base) ==
    [packet_header     |-> U16LE(buffer, base),
     packet_length     |-> U16LE(buffer, base + 2),
     device_fractional |-> U16LE(buffer, base + 4),
     session_id        |-> U32LE(buffer, base + 6),
     sequence_id       |-> U32LE(buffer, base + 10),
     timestamp_packed  |-> U32LE(buffer, base + 14),
     scale_light       |-> U16LE(buffer, base + 18),
     temperature       |-> U16LE(buffer, base + 20),
     events            |-> U8(buffer, base + 22),
     battery           |-> U8(buffer, base + 23),
     rate_code         |-> U8(buffer, base + 24),
     num_axes_bps      |-> U8(buffer, base + 25),
     timestamp_offset  |-> S16LE(buffer, base + 26),
     sample_count      |-> U16LE(buffer, base + 28),
     checksum          |-> U16LE(buffer, base + 510)]

AX_HEADER == 22593

PACKET_LENGTH == 508

\* the comparison of the rate code of a sector with that of the first sector
SameRate_Ignored(rate_code, rateCode) == TRUE

SameRate(rate_code, rateCode) == rate_code = rateCode

\* the row of self.df for sector sector_index (from 0), with the columns _parse_data adds
df_row(buffer, sector_index, format) ==
    LET row == np_data(buffer, SECTOR_SIZE * sector_index)
        sum == checksum_sum(buffer, SECTOR_SIZE * sector_index)
    IN  Updated(row,
        [sector_index |-> sector_index,
         sample_index |-> sector_index * format["sampleCount"],
         checksum_sum |-> sum,
         valid_sector |-> /\ sum = 0
                          /\ row.packet_header = AX_HEADER
                          /\ row.packet_length = PACKET_LENGTH
                          /\ row.num_axes_bps = format["numAxesBPS"]
                          /\ SameRate(row.rate_code, format["rateCode"])])

\* _parse_data: one row per 512-byte sector of the data, its checksum and its validity
ParseData ==
    /\ pc = "parse_data"
    /\ IF Len(data_buffer) % SECTOR_SIZE # 0
       THEN Raise("ValueError") /\ UNCHANGED df
       ELSE /\ df' = [j \in 1..(Len(data_buffer) \div SECTOR_SIZE) |->
                        df_row(data_buffer, j - 1, data_format)]
            /\ pc' = "find_segments"
            /\ UNCHANGED error
    /\ UNCHANGED <<file, options, fh, full_buffer, header, data_offset, data_format, labels,
                   sample_values, all_segments, closing>>
    /\ UNCHANGED <<ts_vars, dw_vars, ck_vars, zf_vars, sv_vars, md_vars>>

\* _find_segments: the body is `pass` (the code that would assign self.all_segments is
\* commented out), so nothing is done
FindSegments ==
    /\ pc = "find_segments"
    /\ pc' = "interpret_samples"
    /\ UNCHANGED <<all_segments, closing>>
    /\ UNCHANGED <<file, options, error, fh, full_buffer, header, data_offset, data_format,
                   df, labels, sample_values>>
    /\ UNCHANGED <<ts_vars, dw_vars, ck_vars, zf_vars, sv_vars, md_vars>>

\* np.uint16 arithmetic wraps
ToUint16(w) == w % 65536

\* _parse_times (NumPy 1 arithmetic): the timestamp of every sector from the lookup table;
\* if the first sector has a fractional timestamp, every sector's low 15 bits are added as
\* a fraction, and the offset gets (time_fractional * int_frequency) // 65536 where the
\* product is a uint16 Series times a small int, which stays uint16
parse_times(rows, format) ==
    [j \in 1..Len(rows) |->
        LET row             == rows[j]
            seconds         == TimeOfSecs(ToUint32(fast_timestamp(row.timestamp_packed)))
            fractional      == BitAnd(format["deviceFractional"], 32768) # 0
            int_frequency   == IntOfRat(format["frequency"])
            time_fractional == ToUint16(BitAnd(row.device_fractional, 32767) * 2)
            offset          == IF fractional
                               THEN row.timestamp_offset
                                    + (ToUint16(time_fractional * int_frequency) \div 65536)
                               ELSE row.timestamp_offset
            timestamp       == IF fractional
                               THEN TimePlus(seconds, Time(0, 0, time_fractional, 65536))
                               ELSE seconds
        IN  Updated(row,
                [timestamp_offset |-> offset,
                 timestamp        |-> timestamp,
                 timestamp_index  |-> row.sample_index + offset])]

\* element q (from 0) of the flattened (120, sectors) view of the packed DWORDs: sector
\* q // 120, DWORD q % 120 of its payload
dword_at(buffer, q) == U32LE(buffer, 30 + SECTOR_SIZE * (q \div 120) + 4 * (q % 120))

\* element q (from 0) of the flattened (240, sectors) view of the words
word_at(buffer, q) == S16LE(buffer, 30 + SECTOR_SIZE * (q \div 240) + 2 * (q % 240))

is_dword_format(format) == format["channels"] = 3 /\ format["bytesPerSample"] = 4

is_word_format(format) == format["bytesPerAxis"] = 2

\* the number of sectors in the data
sector_count(buffer) == Len(buffer) \div SECTOR_SIZE

\* self.raw_samples.shape[0], where the reshape to rows of `channels` words succeeds
raw_rows(buffer, format) ==
    IF is_dword_format(format) THEN 120 * sector_count(buffer)
    ELSE (240 * sector_count(buffer)) \div format["channels"]

\* np.reshape(raw_samples, (-1, channels)) raises unless the words divide into rows
reshape_raises(buffer, format) ==
    /\ ~is_dword_format(format)
    /\ (240 * sector_count(buffer)) % format["channels"] # 0

\* self.raw_samples[row] (row from 0)
raw_sample(buffer, format, row) ==
    IF is_dword_format(format)
    THEN LET packed == dword_at(buffer, row)
         IN  <<unpack_axis(packed, 0), unpack_axis(packed, 10), unpack_axis(packed, 20)>>
    ELSE [c \in 1..format["channels"] |-> word_at(buffer, row * format["channels"] + c - 1)]

has_sensor(include, format, axis) == include /\ HasKey(format, axis) /\ format[axis] >= 0

\* the length of np.arange(0, self.df.shape[0] * self.data_format['sampleCount'])
resampled_length(rows, format) == Len(rows) * format["sampleCount"]

\* assigning an array of `length` values to a column of `rows` rows raises unless the
\* lengths agree or the single value is broadcast
assign_raises(length, rows) == length # rows /\ length # 1

\* raw_samples[:, axis:axis+3] * (1.0 / unit) for one row
scaled(sample, axis, unit) ==
    [c \in 1..3 |-> RatTimes(RatOfInt(sample[axis + c]), Rat(unit.m, unit.n))]

column(rows, key) == [j \in 1..Len(rows) |-> rows[j][key]]

\* a sensor is counted whenever it is asked for
axis_count_Requested(format, opts) ==
    (IF opts.include_time THEN 1 ELSE 0)
    + (IF opts.include_accel THEN 3 ELSE 0)
    + (IF opts.include_gyro THEN 3 ELSE 0)
    + (IF opts.include_mag THEN 3 ELSE 0)
    + (IF opts.include_light THEN 1 ELSE 0)
    + (IF opts.include_temperature THEN 1 ELSE 0)

\* axis_count: the columns the table is made with
axis_count(format, opts) ==
    (IF opts.include_time THEN 1 ELSE 0)
    + (IF has_sensor(opts.include_accel, format, "accelAxis") THEN 3 ELSE 0)
    + (IF has_sensor(opts.include_gyro, format, "gyroAxis") THEN 3 ELSE 0)
    + (IF has_sensor(opts.include_mag, format, "magAxis") THEN 3 ELSE 0)
    + (IF opts.include_light THEN 1 ELSE 0)
    + (IF opts.include_temperature THEN 1 ELSE 0)

\* current_axis once every column is written: one step per label
current_axis(format, opts) ==
    (IF opts.include_time THEN 1 ELSE 0)
    + (IF has_sensor(opts.include_accel, format, "accelAxis") THEN 3 ELSE 0)
    + (IF has_sensor(opts.include_gyro, format, "gyroAxis") THEN 3 ELSE 0)
    + (IF has_sensor(opts.include_mag, format, "magAxis") THEN 3 ELSE 0)
    + (IF opts.include_light THEN 1 ELSE 0)
    + (IF opts.include_temperature THEN 1 ELSE 0)

\* the exception _interpret_samples raises on these rows and format, "" if none
interpret_raises(buffer, rows, format, opts) ==
    IF ~is_dword_format(format) /\ ~is_word_format(format) THEN "Unhandled data format"
    ELSE IF reshape_raises(buffer, format) THEN "ValueError"
    ELSE IF /\ opts.include_time \/ opts.include_light \/ opts.include_temperature
            /\ assign_raises(resampled_length(rows, format), raw_rows(buffer, format))
         THEN "ValueError"
    ELSE IF current_axis(format, opts) # axis_count(format, opts)
         THEN "Internal error: not all output axes accounted for"
    ELSE ""

interpret_labels(format, opts) ==
    (IF opts.include_time THEN <<"time">> ELSE <<>>)
    \o (IF has_sensor(opts.include_accel, format, "accelAxis")
        THEN <<"accel_x", "accel_y", "accel_z">> ELSE <<>>)
    \o (IF has_sensor(opts.include_gyro, format, "gyroAxis")
        THEN <<"gyro_x", "gyro_y", "gyro_z">> ELSE <<>>)
    \o (IF has_sensor(opts.include_mag, format, "magAxis")
        THEN <<"mag_x", "mag_y", "mag_z">> ELSE <<>>)
    \o (IF opts.include_light THEN <<"light">> ELSE <<>>)
    \o (IF opts.include_temperature THEN <<"temperature">> ELSE <<>>)

\* self.sample_values: `rows` are the rows of self.df after _parse_times (if run)
interpret_values(buffer, rows, format, opts) ==
    LET length        == resampled_length(rows, format)
        at(r)         == IF length = 1 THEN 0 ELSE r - 1
        sample_index  == column(rows, "sample_index")
        light         == [j \in 1..Len(rows) |-> RatOfInt(BitAnd(rows[j].scale_light, 1023))]
        temperature   == [j \in 1..Len(rows) |->
                            Rat(BitAnd(rows[j].temperature, 1023) * 75 - 50 * 256, 256)]
    IN  [r \in 1..raw_rows(buffer, format) |->
            LET sample == raw_sample(buffer, format, r - 1)
            IN  (IF opts.include_time
                 THEN <<interp_times(at(r), column(rows, "timestamp_index"),
                                     column(rows, "timestamp"))>>
                 ELSE <<>>)
                \o (IF has_sensor(opts.include_accel, format, "accelAxis")
                    THEN scaled(sample, format["accelAxis"], RatOfInt(format["accelUnit"]))
                    ELSE <<>>)
                \o (IF has_sensor(opts.include_gyro, format, "gyroAxis")
                    THEN scaled(sample, format["gyroAxis"], format["gyroUnit"])
                    ELSE <<>>)
                \o (IF has_sensor(opts.include_mag, format, "magAxis")
                    THEN scaled(sample, format["magAxis"], RatOfInt(format["magUnit"]))
                    ELSE <<>>)
                \o (IF opts.include_light
                    THEN <<interp(at(r), sample_index, light)>> ELSE <<>>)
                \o (IF opts.include_temperature
                    THEN <<interp(at(r), sample_index, temperature)>> ELSE <<>>)]

\* _interpret_samples: the raw samples of every sector in file order, the timestamps of
\* the sectors resampled over the rows, the sensor columns scaled
InterpretSamples ==
    /\ pc = "interpret_samples"
    /\ LET raises == interpret_raises(data_buffer, df, data_format, options)
           timed  == options.include_time /\ raises \in {"", "ValueError"}
                     /\ ~reshape_raises(data_buffer, data_format)
       IN  /\ df' = IF timed THEN parse_times(df, data_format) ELSE df
           /\ IF raises # ""
              THEN /\ Raise(raises)
                   /\ UNCHANGED <<labels, sample_values>>
              ELSE /\ labels' = interpret_labels(data_format, options)
                   /\ sample_values' = interpret_values(data_buffer, df', data_format, options)
                   /\ pc' = "done"
                   /\ UNCHANGED error
    /\ UNCHANGED <<file, options, fh, full_buffer, header, data_offset, data_format, all_segments, closing>>
    /\ UNCHANGED <<ts_vars, dw_vars, ck_vars, zf_vars, sv_vars, md_vars>>

\* close(), from __exit__ or __del__: the map and the file are closed and forgotten
\* self.fh after close(): closed and forgotten
close_fh_Kept(handle) == handle

close_fh(handle) == "None"

\* close(): the mapping is closed and dropped if there is one (bytes have no close), the
\* handle is closed and dropped if there is one
close(method) ==
    /\ full_buffer' = "None"
    /\ fh' = close_fh(fh)
    /\ closing' = [calls         |-> Append(closing.calls, method),
                   fh_closes     |-> closing.fh_closes + (IF fh # "None" THEN 1 ELSE 0),
                   buffer_closes |-> closing.buffer_closes
                                       + (IF full_buffer = "mmap" THEN 1 ELSE 0)]
    /\ UNCHANGED <<file, options, pc, error, header, data_offset, data_format, df, labels,
                   sample_values, all_segments>>
    /\ UNCHANGED <<ts_vars, dw_vars, ck_vars, zf_vars, sv_vars, md_vars>>

\* the call of close() that releases the file, once __init__ has ended or raised
Close ==
    /\ pc \in {"done", "raised"}
    /\ fh # "None" \/ full_buffer # "None"
    /\ close("close")

\* the methods that close: close(), __exit__ at the end of a `with`, __del__
Closers == {"close", "__exit__", "__del__"}

MaxCloseCalls == 3

\* any of them, called on the object at any time after __init__, again and again
CallClose ==
    /\ pc \in {"done", "raised"}
    /\ Len(closing.calls) < MaxCloseCalls
    /\ \E method \in Closers : close(method)

Next == ReadData \/ ParseHeader \/ ParseData \/ FindSegments \/ InterpretSamples \/ Close

Spec == Init /\ [][Next]_vars

SpecFormats == InitFormats /\ [][Next]_vars

SpecStream == InitStream /\ [][Next]_vars

SpecHeaders == InitHeaders /\ [][Next]_vars

SpecConfig == InitConfig /\ [][Next]_vars

SpecSensors == InitSensors /\ [][Next]_vars

\* CwaData(filename) is entered on one or two full sectors, or on a file without a header
InitClosing ==
    /\ \/ \E n \in 1..2, packing \in {WORD_PACKING, DWORD_PACKING} :
             file = SensorStream(n, packing, "swinging")
       \/ file = HeaderFile(HeaderVariant(<<77, 69>>, 508, <<>>, 32), 1024)
    /\ options \in {Options(include_time) : include_time \in BOOLEAN}
    /\ Entered

NextClosing ==
    ReadData \/ ParseHeader \/ ParseData \/ FindSegments \/ InterpretSamples \/ CallClose

SpecClosing == InitClosing /\ [][NextClosing]_vars

(***************************************************************************)
(* Claims about the decoders.                                              *)
(***************************************************************************)
TsDecoded == ts_slow # Unset /\ ts_fast # Unset

\* the fields of a packed date-time, read off its two halves
FieldsOf(value) ==
    [year  |-> 2000 + (value.hi \div 1024),
     month |-> (value.hi \div 64) % 16,
     day   |-> (value.hi \div 2) % 32,
     hours |-> (value.hi % 2) * 16 + (value.lo \div 4096),
     mins  |-> (value.lo \div 64) % 64,
     secs  |-> value.lo % 64]

GregorianLeap(year) == (year % 4 = 0 /\ year % 100 # 0) \/ year % 400 = 0

MonthLength(year, month) ==
    CASE month \in {1, 3, 5, 7, 8, 10, 12} -> 31
      [] month \in {4, 6, 9, 11} -> 30
      [] month = 2 -> IF GregorianLeap(year) THEN 29 ELSE 28
      [] OTHER -> 0

ValidCalendar(f) ==
    /\ f.month \in 1..12
    /\ f.day \in 1..MonthLength(f.year, f.month)
    /\ f.hours < 24 /\ f.mins < 60 /\ f.secs < 60

\* C6 as claimed: every timestamp decoder maps 0x00000000 to 0 and 0xFFFFFFFF to -1.
C6_AllDecodersMapSentinels ==
    TsDecoded =>
        /\ ts_value = U32_ZERO => (ts_slow = Some(SecsOfInt(0)) /\ ts_fast = Some(SecsOfInt(0)))
        /\ ts_value = U32_ONES => (ts_slow = Some(MINUS_ONE) /\ ts_fast = Some(MINUS_ONE))

\* C6 as amended: _parse_timestamp maps 0x00000000 to 0 and 0xFFFFFFFF to -1; the
\* lookup-table decoder has no sentinel cases and maps 0x00000000 to 946598400
\* (10956 days: 1999-12-30 00:00:00) and 0xFFFFFFFF to 2969078643 (34364 days 29043 s).
C6_SentinelsByDecoder ==
    TsDecoded =>
        /\ ts_value = U32_ZERO => (ts_slow = Some(SecsOfInt(0)) /\ ts_fast = Some(SecsOfInt(946598400)))
        /\ ts_value = U32_ONES => (ts_slow = Some(MINUS_ONE) /\ ts_fast = Some([d |-> 34364, s |-> 29043]))

C6_Witness == TsDecoded /\ ts_value = U32_ONES

\* C7: on every packed value whose fields form a valid calendar date-time, the
\* lookup-table decoder and the calendar decoder return the same count of seconds.
C7_DecodersAgreeOnValidDates ==
    (TsDecoded /\ ValidCalendar(FieldsOf(ts_value))) => ts_slow = ts_fast

\* 2063-12-31 23:59:59, the last valid date-time, decoded by both
C7_Witness ==
    /\ TsDecoded
    /\ ts_value = PackTimestamp(63, 12, 31, 23, 59, 59)
    /\ ValidCalendar(FieldsOf(ts_value))

Signed10(v) == IF v >= 512 THEN v - 1024 ELSE v

\* C9: unpacking the DWORD packed from exponent e and 10-bit fields x, y, z returns
\* the three fields sign-extended from bit 9 and multiplied by 2^e.
C9_UnpackScalesSignedFields ==
    dw_axes # Unset =>
        dw_axes = Some(<<Signed10(dw_in.x) * 2 ^ dw_in.e,
                         Signed10(dw_in.y) * 2 ^ dw_in.e,
                         Signed10(dw_in.z) * 2 ^ dw_in.e>>)

\* a negative x, a positive y, a negative z and the largest exponent, unpacked
C9_Witness ==
    /\ dw_axes # Unset
    /\ dw_in.e = 3 /\ dw_in.x = 512 /\ dw_in.y = 511 /\ dw_in.z = 1023
    /\ dw_axes = Some(<<-4096, 4088, -8>>)

\* the sum of the 16-bit little-endian words lo .. hi-1 of a block
RECURSIVE WordSum(_, _, _)
WordSum(block, lo, hi) ==
    IF hi - lo = 1 THEN block[2 * lo + 1] + 256 * block[2 * lo + 2]
    ELSE WordSum(block, lo, (lo + hi) \div 2) + WordSum(block, (lo + hi) \div 2, hi)

\* C5: _checksum is the sum of the 256 little-endian words modulo 2^16, and the bulk
\* int16 sum of the loader is zero exactly when _checksum is.
C5_ChecksumsAgree ==
    (ck_scalar # Unset /\ ck_bulk # Unset) =>
        /\ ck_scalar = Some(WordSum(ck_block, 0, 256) % 65536)
        /\ (ck_bulk = Some(0)) <=> (ck_scalar = Some(0))

\* a block of non-zero words whose sum wraps to zero, summed both ways
C5_Witness ==
    /\ ck_scalar = Some(0) /\ ck_bulk = Some(0)
    /\ WordSum(ck_block, 0, 256) > 65536

(***************************************************************************)
(* Claims about the loader, stated on the bytes of the file.               *)
(***************************************************************************)
\* the data sectors of the file, numbered from 1, after its 1024-byte header
FileSectors == (Len(file) - 1024) \div 512

SectorBase(j) == 1024 + 512 * (j - 1)

FileByte(o) == file[o + 1]

FileWord(o) == file[o + 1] + 256 * file[o + 2]

Signed16(w) == IF w >= 32768 THEN w - 65536 ELSE w

\* the sum of the 256 words of sector j, modulo 2^16
SectorWordSum(j) == WordSum(file, SectorBase(j) \div 2, (SectorBase(j) \div 2) + 256) % 65536

\* magic "AX", length 508, words summing to zero
SectorIntact(j) ==
    /\ FileByte(SectorBase(j)) = 65 /\ FileByte(SectorBase(j) + 1) = 88
    /\ FileWord(SectorBase(j) + 2) = 508
    /\ SectorWordSum(j) = 0

\* same packing byte and rate code as the first data sector
SectorConforms(j) ==
    /\ FileByte(SectorBase(j) + 25) = FileByte(SectorBase(1) + 25)
    /\ FileByte(SectorBase(j) + 24) = FileByte(SectorBase(1) + 24)

SectorsParsed == pc \in {"find_segments", "interpret_samples", "done"}

\* C4: every data sector has a row, whose valid_sector is true exactly when the words of
\* the sector sum to zero, its magic is "AX", its length is 508, and its packing byte and
\* rate code are those of the first sector.
C4_ValidSectorIsFiveConditions ==
    SectorsParsed =>
        /\ Len(df) = FileSectors
        /\ \A j \in 1..FileSectors :
              df[j].valid_sector <=> (SectorIntact(j) /\ SectorConforms(j))

\* three sectors parsed: the second fails only the rate code test, the third passes all
C4_Witness ==
    /\ SectorsParsed /\ FileSectors = 3
    /\ SectorIntact(2)
    /\ FileByte(SectorBase(2) + 25) = FileByte(SectorBase(1) + 25)
    /\ FileByte(SectorBase(2) + 24) # FileByte(SectorBase(1) + 24)
    /\ ~df[2].valid_sector
    /\ df[3].valid_sector

FormatParsed == pc \in {"parse_data", "find_segments", "interpret_samples", "done"}

HeaderDone == pc \notin {"read_data", "parse_header"}

\* rows the first sector's packing gives each sector: 120 DWORDs, or 240 words in rows of
\* as many words as there are channels
RowsPerSector ==
    LET packing == FileByte(SectorBase(1) + 25)
    IN  IF packing = 48 THEN 120 ELSE 240 \div (packing \div 16)

\* the time column fits the table: as many resampled times as rows
TimesFit == FileSectors * FileWord(SectorBase(1) + 28) = FileSectors * RowsPerSector

\* C3 as claimed: a mismatch on a data sector, the first included, never aborts the load.
C3_MismatchNeverAborts ==
    (\E j \in 1..FileSectors : ~(SectorIntact(j) /\ SectorConforms(j))) =>
        ~(pc = "raised" /\ error = "Unexpected data format")

\* C3 as amended: the format is that of the first data sector, whatever the others are;
\* the load is aborted with 'Unexpected data format' exactly when the first data sector
\* fails its magic, length or checksum test, and a raise on a file whose first sector
\* passes them is the ValueError of a time column that does not fit the table.
C3_FirstSectorDecides ==
    /\ HeaderDone =>
          ((pc = "raised" /\ error = "Unexpected data format") <=> ~SectorIntact(1))
    /\ FormatParsed =>
          /\ data_format["numAxesBPS"] = FileByte(SectorBase(1) + 25)
          /\ data_format["rateCode"] = FileByte(SectorBase(1) + 24)
          /\ data_format["sampleCount"] = FileWord(SectorBase(1) + 28)
    /\ (pc = "raised" /\ SectorIntact(1)) =>
          (error = "ValueError" /\ options.include_time /\ ~TimesFit)
    /\ (pc = "done" /\ options.include_time) => TimesFit

\* the first sector fails its checksum, the second is intact: the load is aborted
C3_Witness ==
    /\ pc = "raised" /\ error = "Unexpected data format"
    /\ FileSectors >= 2
    /\ ~SectorIntact(1) /\ SectorIntact(2)
    /\ SectorWordSum(1) # 0

FileU32(o) == U32(FileWord(o + 2), FileWord(o))

\* the accel columns of row r of the table
AccelColumn == IF options.include_time THEN 2 ELSE 1

RowAccel(r) == SubSeq(sample_values[r], AccelColumn, AccelColumn + 2)

\* sample i (from 0) of the payload of sector j in the packing of the first sector, in
\* units of 1/256 g: three signed words, or a DWORD eezzzzzz zzzzyyyy yyyyyyxx xxxxxxxx
InjectedSample(j, i) ==
    LET base == SectorBase(j) + 30
    IN  IF FileByte(SectorBase(1) + 25) = 48
        THEN LET lo == FileWord(base + 4 * i)
                 hi == FileWord(base + 4 * i + 2)
                 e  == hi \div 16384
             IN  <<Rat(Signed10(lo % 1024) * 2 ^ e, 256),
                   Rat(Signed10((lo \div 1024) + 64 * (hi % 16)) * 2 ^ e, 256),
                   Rat(Signed10((hi \div 16) % 1024) * 2 ^ e, 256)>>
        ELSE <<Rat(Signed16(FileWord(base + 6 * i)), 256),
               Rat(Signed16(FileWord(base + 6 * i + 2)), 256),
               Rat(Signed16(FileWord(base + 6 * i + 4)), 256)>>

\* the samples the payload of sector j holds, and the rows of the table that carry one
SamplesOf(j) == {InjectedSample(j, i) : i \in 0..(RowsPerSector - 1)}

RowsFrom(j) == {r \in 1..Len(sample_values) : RowAccel(r) \in SamplesOf(j)}

SectorValid(j) == SectorIntact(j) /\ SectorConforms(j)

\* C2 as claimed: if a data sector other than the first is invalid, the load completes
\* (it does not raise where the time column fits the table) and the table holds no sample
\* of that sector and every sample of every valid sector.
C2_InvalidSectorSamplesAbsent ==
    \A j \in 2..FileSectors :
        ~SectorValid(j) =>
            /\ (TimesFit \/ ~options.include_time) => pc # "raised"
            /\ pc = "done" =>
                  /\ RowsFrom(j) = {}
                  /\ \A k \in 1..FileSectors :
                        SectorValid(k) =>
                            SamplesOf(k) \subseteq {RowAccel(r) : r \in 1..Len(sample_values)}

\* what happens instead: a table is built from a file whose second sector fails its
\* checksum, and every sample position of that sector is a row of the table
C2_InvalidSectorSamplesPresent ==
    /\ pc = "done" /\ FileSectors >= 2
    /\ SectorWordSum(2) # 0 /\ ~df[2].valid_sector
    /\ RowsFrom(2) = (RowsPerSector + 1)..(2 * RowsPerSector)

\* C10 as claimed: a final sector whose sample_count is below the samples per sector gives
\* the table exactly sample_count rows.
C10_PartialFinalSectorRowsLimited ==
    (pc = "done" /\ FileWord(SectorBase(FileSectors) + 28) < RowsPerSector) =>
        Cardinality(RowsFrom(FileSectors)) = FileWord(SectorBase(FileSectors) + 28)

\* what happens instead: every payload position of the partial final sector is a row
C10_PartialFinalSectorReadWhole ==
    /\ pc = "done"
    /\ FileWord(SectorBase(FileSectors) + 28) < RowsPerSector
    /\ Cardinality(RowsFrom(FileSectors)) = RowsPerSector

\* three intact sectors, packing 0x32, rate code 0x4A (100 Hz), sample_count 40, session
\* id 1 and sequence ids 0, 1, 2
IsThreeSectorsOfForty ==
    /\ FileSectors = 3
    /\ \A j \in 1..3 :
          /\ SectorIntact(j)
          /\ FileByte(SectorBase(j) + 25) = 50
          /\ FileByte(SectorBase(j) + 24) = 74
          /\ FileWord(SectorBase(j) + 28) = 40
          /\ FileU32(SectorBase(j) + 6) = U32(0, 1)
          /\ FileU32(SectorBase(j) + 10) = U32(0, j - 1)

TimeAtMost(a, b) ==
    \/ a.d < b.d
    \/ a.d = b.d /\ a.s < b.s
    \/ a.d = b.d /\ a.s = b.s /\ a.q.n * b.q.m <= b.q.n * a.q.m

\* C1 as claimed: that file loads into a table of exactly 120 rows, with a non-decreasing
\* time column and the accel values of sample i of sector j in row 40 j + i.
C1_ThreeSectorsOfFortyGive120Rows ==
    IsThreeSectorsOfForty =>
        /\ pc # "raised"
        /\ pc = "done" =>
              /\ Len(sample_values) = 120
              /\ options.include_time =>
                    \A r \in 1..(Len(sample_values) - 1) :
                        TimeAtMost(sample_values[r][1], sample_values[r + 1][1])
              /\ \A j \in 1..3 : \A i \in 0..39 :
                    RowAccel(40 * (j - 1) + i + 1) = InjectedSample(j, i)

\* what happens instead: with the time column the load raises ValueError, without it the
\* table has 240 rows
C1_ThreeSectorsOfFortyOutcome ==
    /\ IsThreeSectorsOfForty
    /\ \/ pc = "raised" /\ error = "ValueError" /\ options.include_time
       \/ pc = "done" /\ ~options.include_time /\ Len(sample_values) = 240

\* a packed date-time that is neither sentinel and is no calendar date-time
InvalidDate(packed) ==
    /\ packed # U32_ZERO /\ packed # U32_ONES
    /\ ~ValidCalendar(FieldsOf(packed))

HeaderDates == {<<"loggingStart", 13>>, <<"loggingEnd", 17>>, <<"lastChange", 37>>}

HasInvalidDate ==
    \/ \E field \in HeaderDates : InvalidDate(FileU32(field[2]))
    \/ \E j \in 1..FileSectors : InvalidDate(FileU32(SectorBase(j) + 14))

HeaderDatesMinusOne ==
    HasKey(header, "packetLength") =>
        \A field \in HeaderDates :
            InvalidDate(FileU32(field[2])) => header[field[1]] = MINUS_ONE

\* C8 as claimed: an impossible date decodes to -1, in a header field and in the
\* timestamp of a data sector, and the load is not aborted (a file whose first sector is
\* intact and whose time column fits the table does not raise).
C8_InvalidDatesDecodeToMinusOne ==
    /\ HeaderDatesMinusOne
    /\ \A j \in 1..Len(df) :
          (HasKey(df[j], "timestamp") /\ InvalidDate(FileU32(SectorBase(j) + 14))) =>
              df[j]["timestamp"] = TimeOfSecs(MINUS_ONE)
    /\ (HasInvalidDate /\ SectorIntact(1) /\ (TimesFit \/ ~options.include_time)) =>
          pc # "raised"

\* C8 as amended: an impossible date decodes to -1 in the header fields and in the format
\* parsed from the first sector; the per-sector timestamps of the table come from the
\* lookup table, are never negative (2023-02-31 gives 1677801600, which is 2023-03-03);
\* and an impossible date is no cause of a raise.
C8_InvalidDatesByDecoder ==
    /\ HeaderDatesMinusOne
    /\ (FormatParsed /\ InvalidDate(FileU32(SectorBase(1) + 14))
        /\ FileWord(SectorBase(1) + 4) < 32768) =>
            data_format["timestamp"] = TimeOfSecs(MINUS_ONE)
    /\ \A j \in 1..Len(df) :
          (HasKey(df[j], "timestamp") /\ InvalidDate(FileU32(SectorBase(j) + 14))) =>
              /\ ~TimeIsNegative(df[j]["timestamp"])
              /\ (/\ FileU32(SectorBase(j) + 14) = PackTimestamp(23, 2, 31, 0, 0, 0)
                  /\ FileWord(SectorBase(1) + 4) < 32768) =>
                    df[j]["timestamp"] = TimeOfSecs(SecsOfInt(1677801600))
    /\ (HasInvalidDate /\ SectorIntact(1) /\ (TimesFit \/ ~options.include_time)) =>
          pc # "raised"

\* a table is built from a file whose header has an impossible start date and whose
\* second sector is dated 2023-02-31
C8_Witness ==
    /\ pc = "done" /\ FileSectors >= 2
    /\ InvalidDate(FileU32(13)) /\ header["loggingStart"] = MINUS_ONE
    /\ InvalidDate(FileU32(SectorBase(2) + 14))
    /\ options.include_time
    /\ df[2]["timestamp"] = TimeOfSecs(SecsOfInt(1677801600))

(***************************************************************************)
(* PotentiallyZippedFile (load/zip_helper.py).  A str is a sequence of     *)
(* characters; '__TEMP-', the random part of a temporary name and the      *)
(* temporary directory are each held as one character.  None is <<>>.      *)
(***************************************************************************)
\* str.lower() on the letters the names use
lower_char(c) ==
    CASE c = "A" -> "a" [] c = "C" -> "c" [] c = "W" -> "w" [] c = "Z" -> "z"
      [] c = "I" -> "i" [] c = "P" -> "p" [] OTHER -> c

lower(str) == [i \in 1..Len(str) |-> lower_char(str[i])]

\* os.path.basename: what follows the last '/'
basename(path) ==
    LET at == {i \in 1..Len(path) : path[i] = "/"}
    IN  IF at = {} THEN path
        ELSE SubSeq(path, (CHOOSE i \in at : \A k \in at : k <= i) + 1, Len(path))

\* os.path.splitext: the extension starts at the last '.' of the basename, unless only
\* dots come before it
splitext(path) ==
    LET start == Len(path) - Len(basename(path))
        dots  == {i \in (start + 1)..Len(path) : path[i] = "."}
        last  == CHOOSE i \in dots : \A k \in dots : k <= i
    IN  IF dots = {} \/ \A i \in (start + 1)..last : path[i] = "."
        THEN <<path, <<>>>>
        ELSE <<SubSeq(path, 1, last - 1), SubSeq(path, last, Len(path))>>

\* fnmatch.fnmatchcase for patterns of '*', '?' and plain characters
RECURSIVE fnmatchcase(_, _)
fnmatchcase(name, pat) ==
    IF pat = <<>> THEN name = <<>>
    ELSE IF Head(pat) = "*"
         THEN fnmatchcase(name, Tail(pat)) \/ (name # <<>> /\ fnmatchcase(Tail(name), pat))
    ELSE /\ name # <<>>
         /\ Head(pat) = "?" \/ Head(pat) = Head(name)
         /\ fnmatchcase(Tail(name), Tail(pat))

\* what `for filter in filters` goes through: the items of a list, the characters of a str
iterate(filters) ==
    IF filters.list THEN filters.value
    ELSE [i \in 1..Len(filters.value) |-> <<filters.value[i]>>]

\* is_match of one entry: the loop is over the argument `filters`, not over self.filters
is_match(filename, filters) ==
    \E i \in 1..Len(iterate(filters)) : fnmatchcase(lower(filename), lower(iterate(filters)[i]))

TEMP_MARKER == "__TEMP-"

\* os.path.join(tempfile.gettempdir(), '__TEMP-' + randomString + '__' + baseArchive
\*              + '__' + baseFilename + ext)
temp_file_of(source_file, archive_file) ==
    <<"tmp/", TEMP_MARKER, "uuid", "__">> \o splitext(basename(source_file))[1]
        \o <<"__">> \o splitext(basename(archive_file))[1] \o splitext(archive_file)[2]

ZipRaise(message) ==
    /\ zf_pc' = "raised" /\ zf_error' = message

\* __init__ up to the opening of the archive: the attributes, the list made of a single
\* filter, the extension of the source and zipfile.is_zipfile
ZipConstruct ==
    /\ zf_pc = "init"
    /\ zf_self' = [filters      |-> IF zf_filters.list THEN zf_filters.value
                                    ELSE <<zf_filters.value>>,
                   archive_file |-> None,
                   temp_file    |-> None]
    /\ IF lower(splitext(zf_source.name)[2]) # <<".", "z", "i", "p">>
       THEN zf_pc' = "constructed" /\ UNCHANGED zf_error
       ELSE IF ~zf_source.is_zipfile
       THEN ZipRaise("File is named .ZIP but does not seem to be a valid archive")
       ELSE zf_pc' = "examine" /\ UNCHANGED zf_error
    /\ zf_matching' = <<>> /\ zf_index' = 1
    /\ UNCHANGED <<zf_source, zf_filters, zf_entered, zf_disk, zf_removed>>
    /\ UNCHANGED <<ts_vars, dw_vars, ck_vars, ld_vars, sv_vars, md_vars>>

\* one turn of `for zi in zip_info_list`
ZipExamine ==
    /\ zf_pc = "examine"
    /\ zf_index <= Len(zf_source.entries)
    /\ zf_matching' = IF is_match(zf_source.entries[zf_index], zf_filters)
                      THEN Append(zf_matching, zf_source.entries[zf_index])
                      ELSE zf_matching
    /\ zf_index' = zf_index + 1
    /\ UNCHANGED <<zf_source, zf_filters, zf_pc, zf_error, zf_self, zf_entered, zf_disk,
                   zf_removed>>
    /\ UNCHANGED <<ts_vars, dw_vars, ck_vars, ld_vars, sv_vars, md_vars>>

\* after the loop: no match and several matches raise, the single match is extracted
\* under its temporary name
ZipExtract ==
    /\ zf_pc = "examine"
    /\ zf_index > Len(zf_source.entries)
    /\ IF Len(zf_matching) = 0
       THEN /\ ZipRaise("No filenames in the archive match the filter(s)")
            /\ UNCHANGED <<zf_self, zf_disk>>
       ELSE IF Len(zf_matching) # 1
       THEN /\ ZipRaise("Multiple filenames in the archive match the filter(s)")
            /\ UNCHANGED <<zf_self, zf_disk>>
       ELSE /\ zf_self' = [zf_self EXCEPT
                              !.archive_file = zf_matching[1],
                              !.temp_file = temp_file_of(zf_source.name, zf_matching[1])]
            /\ zf_disk' = zf_disk \cup {temp_file_of(zf_source.name, zf_matching[1])}
            /\ zf_pc' = "constructed"
            /\ UNCHANGED zf_error
    /\ UNCHANGED <<zf_source, zf_filters, zf_matching, zf_index, zf_entered, zf_removed>>
    /\ UNCHANGED <<ts_vars, dw_vars, ck_vars, ld_vars, sv_vars, md_vars>>

\* __enter__: the temporary file if there is one, the source file otherwise
ZipEnter ==
    /\ zf_pc = "constructed"
    /\ zf_entered = Unset
    /\ zf_entered' = Some(IF zf_self.temp_file # None THEN zf_self.temp_file
                          ELSE zf_source.name)
    /\ UNCHANGED <<zf_source, zf_filters, zf_pc, zf_error, zf_self, zf_matching, zf_index,
                   zf_disk, zf_removed>>
    /\ UNCHANGED <<ts_vars, dw_vars, ck_vars, ld_vars, sv_vars, md_vars>>

\* close() raises when the name to remove lacks the marker
zip_close_raises(remove_file) ==
    remove_file # None /\ \A i \in 1..Len(remove_file) : remove_file[i] # TEMP_MARKER

\* close() calls os.remove on the temporary file it still knows of
zip_close_removes(remove_file) ==
    remove_file # None /\ \E i \in 1..Len(remove_file) : remove_file[i] = TEMP_MARKER

\* the effect of close() on the object and on the disk
zip_close ==
    /\ zf_self' = [zf_self EXCEPT !.temp_file = None]
    /\ IF zip_close_removes(zf_self.temp_file)
       THEN /\ zf_removed' = Append(zf_removed, zf_self.temp_file)
            /\ zf_disk' = zf_disk \ {zf_self.temp_file}
       ELSE UNCHANGED <<zf_removed, zf_disk>>

\* close(), __exit__ or __del__ of an object whose __init__ has ended or raised
ZipClose ==
    /\ zf_pc \in {"constructed", "raised"}
    /\ zf_self.temp_file # None
    /\ zip_close
    /\ UNCHANGED <<zf_source, zf_filters, zf_pc, zf_error, zf_matching, zf_index, zf_entered>>
    /\ UNCHANGED <<ts_vars, dw_vars, ck_vars, ld_vars, sv_vars, md_vars>>

ZfNext == ZipConstruct \/ ZipExamine \/ ZipExtract \/ ZipEnter \/ ZipClose

\* the names of the entries of an archive, and the filter patterns
EntryNames ==
    {<<"a", ".", "c", "w", "a">>, <<"B", ".", "C", "W", "A">>, <<"n", ".", "t", "x", "t">>,
     <<"d", "/", "c", ".", "c", "w", "a">>, <<"w">>}

Patterns ==
    {<<"*", ".", "c", "w", "a">>, <<"*", ".", "C", "W", "A">>, <<"?", ".", "c", "w", "a">>,
     <<"*", ".", "*">>, <<"w">>, <<>>}

SourceNames ==
    {<<"s", ".", "z", "i", "p">>, <<"d", "/", "S", ".", "Z", "I", "P">>,
     <<"a", ".", "c", "w", "a">>}

\* the archives hold up to MaxEntries entries, the filter lists up to MaxFilters patterns
MaxEntries == 2

MaxFilters == 2

SeqsUpTo(S, n) == UNION {[1..k -> S] : k \in 0..n}

\* PotentiallyZippedFile(source_file, filters) is entered
ZfInit ==
    /\ \E name \in SourceNames, is_zipfile \in BOOLEAN :
       \E entries \in SeqsUpTo(EntryNames, MaxEntries) :
          /\ is_zipfile \/ entries = <<>>
          /\ zf_source = [name |-> name, is_zipfile |-> is_zipfile, entries |-> entries]
    /\ \/ \E value \in SeqsUpTo(Patterns, MaxFilters) :
             zf_filters = [list |-> TRUE, value |-> value]
       \/ \E value \in Patterns : zf_filters = [list |-> FALSE, value |-> value]
    /\ zf_pc = "init" /\ zf_error = ""
    /\ zf_self = [filters |-> <<>>, archive_file |-> <<>>, temp_file |-> <<>>]
    /\ zf_matching = <<>> /\ zf_index = 0
    /\ zf_entered = Unset
    /\ zf_disk = {} /\ zf_removed = <<>>
    /\ TsIdle /\ DwIdle /\ CkIdle /\ LdIdle /\ SvIdle /\ MdIdle

SpecZip == ZfInit /\ [][ZfNext]_vars

(***************************************************************************)
(* MultiData (load/multi_load.py): a loader chosen by the extension of the *)
(* file that PotentiallyZippedFile hands over.  The inner loader is known  *)
(* by whether its constructor and its close() return or raise.  os.remove  *)
(* removes the file it is given, as unlink does for a file of the caller   *)
(* in the temporary directory, open or not.                                *)
(***************************************************************************)

\* the extensions that __init__ has a loader for
HandledExtensions ==
    {<<".", "c", "w", "a">>, <<".", "o", "m", "x">>, <<".", "w", "a", "v">>,
     <<".", "c", "s", "v">>}

\* PotentiallyZippedFile(...) raised: it was called outside the `try`, so the exception
\* leaves MultiData.__init__ before the attribute is assigned
MultiZipRaised ==
    /\ md_pc = "zip" /\ zf_pc = "raised"
    /\ md_pc' = "raised" /\ md_error' = zf_error
    /\ UNCHANGED <<md_self, md_calls>>
    /\ UNCHANGED <<ts_vars, dw_vars, ck_vars, ld_vars, sv_vars, zf_vars>>

\* the `try` of __init__ after __enter__: the loader of the extension is constructed;
\* if it raises, or there is none, `except` calls __exit__ of the zipped file and raises
MultiLoadInner ==
    /\ md_pc = "zip" /\ zf_pc = "constructed" /\ zf_entered # Unset
    /\ \E inner_raises \in BOOLEAN :
          LET ext == lower(splitext(zf_entered[1])[2])
          IN  IF ext \in HandledExtensions /\ ~inner_raises
              THEN /\ md_self' = [inner_data |-> "open", potentially_zipped_file |-> "object"]
                   /\ md_pc' = "constructed"
                   /\ UNCHANGED <<md_error, zf_self, zf_removed, zf_disk>>
              ELSE /\ ~inner_raises \/ ext \in HandledExtensions
                   /\ zip_close
                   /\ md_self' = [inner_data |-> "unset", potentially_zipped_file |-> "object"]
                   /\ md_pc' = "raised"
                   /\ md_error' = IF ext \in HandledExtensions THEN "raised by the inner loader"
                                  ELSE "Unhandled file type"
    /\ UNCHANGED <<md_calls, zf_source, zf_filters, zf_pc, zf_error, zf_matching, zf_index,
                   zf_entered>>
    /\ UNCHANGED <<ts_vars, dw_vars, ck_vars, ld_vars, sv_vars>>

\* `finally` of close(): __exit__ of the zipped file is called whether inner_data.close()
\* raised or not
closes_zip_after_OnSuccessOnly(inner_raised) == ~inner_raised

closes_zip_after(inner_raised) == TRUE

MaxMultiCloses == 3

\* close(), from the caller, __exit__ or __del__, of an object whose __init__ has ended or
\* raised: inner_data.close() if there is an inner_data, then __exit__ of the zipped file
\* if there is one, which is forgotten
MultiClose ==
    /\ md_pc \in {"constructed", "raised"}
    /\ Len(md_calls) < MaxMultiCloses
    /\ \E inner_raises \in BOOLEAN :
          LET has_inner    == md_self.inner_data = "open"
              inner_raised == has_inner /\ inner_raises
              has_zip      == md_self.potentially_zipped_file = "object"
              exits_zip    == has_zip /\ closes_zip_after(inner_raised)
          IN  /\ has_inner \/ ~inner_raises
              /\ md_self' = [inner_data |-> IF has_inner /\ ~inner_raised THEN "None"
                                            ELSE md_self.inner_data,
                             potentially_zipped_file |-> IF exits_zip THEN "None"
                                            ELSE md_self.potentially_zipped_file]
              /\ IF exits_zip THEN zip_close ELSE UNCHANGED <<zf_self, zf_removed, zf_disk>>
              /\ md_calls' = Append(md_calls, IF inner_raised THEN "raised" ELSE "returned")
    /\ UNCHANGED <<md_pc, md_error, zf_source, zf_filters, zf_pc, zf_error, zf_matching,
                   zf_index, zf_entered>>
    /\ UNCHANGED <<ts_vars, dw_vars, ck_vars, ld_vars, sv_vars>>

MdNext ==
    ZipConstruct \/ ZipExamine \/ ZipExtract \/ ZipEnter \/ MultiZipRaised \/ MultiLoadInner
        \/ MultiClose

\* filters of one pattern: an extension, any name with a dot, one name without a dot
MultiFilters == {<<<<"*", ".", "c", "w", "a">>>>, <<<<"*", ".", "*">>>>, <<<<"w">>>>}

\* MultiData(filename, filters=...) has called PotentiallyZippedFile(self.filename, ...);
\* the source file is on the disk
MdInit ==
    /\ \E name \in SourceNames, is_zipfile \in BOOLEAN :
       \E entries \in SeqsUpTo(EntryNames, MaxEntries) :
          /\ is_zipfile \/ entries = <<>>
          /\ zf_source = [name |-> name, is_zipfile |-> is_zipfile, entries |-> entries]
          /\ zf_disk = {name}
    /\ \E value \in MultiFilters : zf_filters = [list |-> TRUE, value |-> value]
    /\ zf_pc = "init" /\ zf_error = ""
    /\ zf_self = [filters |-> <<>>, archive_file |-> <<>>, temp_file |-> <<>>]
    /\ zf_matching = <<>> /\ zf_index = 0
    /\ zf_entered = Unset
    /\ zf_removed = <<>>
    /\ md_pc = "zip" /\ md_error = ""
    /\ md_self = [inner_data |-> "unset", potentially_zipped_file |-> "unset"]
    /\ md_calls = <<>>
    /\ TsIdle /\ DwIdle /\ CkIdle /\ LdIdle /\ SvIdle

SpecMulti == MdInit /\ [][MdNext]_vars

(***************************************************************************)
(* CalcSvm (calc_svm.py): the mean of abs(sqrt(x*x + y*y + z*z) - 1) over  *)
(* each epoch of the rows [time, x, y, z] of an iterator.  Times are whole *)
(* seconds and the accelerations are chosen with a whole vector length, so *)
(* that the floating-point arithmetic of the code is exact.                *)
(***************************************************************************)

\* math.sqrt of a perfect square
sqrt(n) == CHOOSE r \in 0..n : r * r = n

\* abs(sqrt(x * x + y * y + z * z) - 1)
svm_of(x, y, z) == Abs(sqrt((x * x) + (y * y) + (z * z)) - 1)

\* CalcSvm.__init__
calc_svm_init(opts) ==
    [epoch_size |-> opts.epoch_size, alignment |-> opts.alignment,
     current_epoch_id |-> None, current_epoch_time |-> None, ended |-> FALSE,
     count |-> 0, sum |-> 0]

\* `next_epoch_id != self.current_epoch_id`, on the final pass too, where next_epoch_id
\* is None
epoch_changed_OnRowsOnly(next_epoch_id, current_epoch_id) ==
    next_epoch_id # None /\ next_epoch_id # current_epoch_id

epoch_changed(next_epoch_id, current_epoch_id) == next_epoch_id # current_epoch_id

\* one pass of the `while True` of __next__ on the state s = [self, read, rows]:
\* the state after the pass, the result (None if none), and the time of the row read
\* (None if none)
loop_pass(s) ==
    LET self      == s.self
        has_row   == ~self.ended /\ s.read < Len(sv_input)
        row       == sv_input[s.read + 1]
        time      == IF has_row THEN Some(row[1]) ELSE None
        ended     == self.ended \/ ~has_row
        alignment == IF self.alignment = None /\ time # None THEN Some(-time[1])
                     ELSE self.alignment
        next_epoch_id ==
            IF time # None THEN Some((time[1] + alignment[1]) \div self.epoch_size) ELSE None
        next_epoch_time ==
            IF time # None THEN Some((next_epoch_id[1] * self.epoch_size) - alignment[1])
            ELSE None
        changed   == epoch_changed(next_epoch_id, self.current_epoch_id)
        result    == IF changed /\ self.count > 0
                     THEN Some(<<self.current_epoch_time[1], Rat(self.sum, self.count)>>)
                     ELSE None
        sum       == IF changed THEN 0 ELSE self.sum
        count     == IF changed THEN 0 ELSE self.count
        current   == IF changed THEN <<>> ELSE s.rows.current
    IN  [self   |-> [epoch_size |-> self.epoch_size, alignment |-> alignment,
                     current_epoch_id   |-> IF changed THEN next_epoch_id
                                            ELSE self.current_epoch_id,
                     current_epoch_time |-> IF changed THEN next_epoch_time
                                            ELSE self.current_epoch_time,
                     ended |-> ended,
                     count |-> IF has_row THEN count + 1 ELSE count,
                     sum   |-> IF has_row THEN sum + svm_of(row[2], row[3], row[4]) ELSE sum],
         read   |-> IF has_row THEN s.read + 1 ELSE s.read,
         rows   |-> [current |-> IF has_row THEN Append(current, s.read + 1) ELSE current,
                     emitted |-> IF result # None THEN Append(s.rows.emitted, s.rows.current)
                                 ELSE s.rows.emitted],
         result |-> result,
         time   |-> time]

\* __next__, a pass of its loop at a time: a pass with a result returns it and the
\* consumer (`for epoch in CalcSvm(input, options)`) calls again; a pass with neither a
\* result nor a row raises StopIteration; after any other pass the loop goes round
CalcSvmNext ==
    /\ sv_pc = "iterating"
    /\ LET after == loop_pass([self |-> sv_self, read |-> sv_read, rows |-> sv_rows])
       IN  /\ sv_self' = after.self
           /\ sv_read' = after.read
           /\ sv_rows' = after.rows
           /\ sv_output' = IF after.result # None THEN Append(sv_output, after.result[1])
                           ELSE sv_output
           /\ sv_pc' = IF after.result = None /\ after.time = None THEN "stopped"
                       ELSE "iterating"
    /\ UNCHANGED <<sv_input, sv_options>>
    /\ UNCHANGED <<ts_vars, dw_vars, ck_vars, ld_vars, zf_vars, md_vars>>

SvNext == CalcSvmNext

\* times of rows, in seconds: within one epoch, in the next, further on, and earlier
SvTimes == {3, 7, 8, 14}

\* accelerations of length 1 and 5
SvAccels == {<<0, 0, 1>>, <<3, 4, 0>>}

MaxRows == 3

\* CalcSvm(input, options) is made of a finite iterator of rows, aligned to the start of
\* the data or to the wall clock
SvInit ==
    /\ sv_input \in SeqsUpTo({<<t, a[1], a[2], a[3]>> : t \in SvTimes, a \in SvAccels}, MaxRows)
    /\ sv_options \in [epoch_size : {5, 10}, alignment : {None, Some(0)}]
    /\ sv_self = calc_svm_init(sv_options)
    /\ sv_read = 0
    /\ sv_pc = "iterating"
    /\ sv_output = <<>>
    /\ sv_rows = [current |-> <<>>, emitted |-> <<>>]
    /\ TsIdle /\ DwIdle /\ CkIdle /\ LdIdle /\ ZfIdle /\ MdIdle

\* the consumer goes on calling next() until StopIteration
SpecSvm == SvInit /\ [][SvNext]_vars /\ WF_vars(SvNext)

(***************************************************************************)
(* Claims about the format of the first data sector.                       *)
(***************************************************************************)
\* the packing byte of the first data sector and its number of axes
FirstPacking == FileByte(SectorBase(1) + 25)

FirstChannels == FirstPacking \div 16

\* the axis the format gives a sensor, -1 if it gives none
AxisAt(key) == IF HasKey(data_format, key) THEN data_format[key] ELSE -1

\* word c (from 0) of row r (from 1) of a WORD-packed file: the 240 payload words of
\* each sector follow one another, in rows of as many words as there are axes
RowWord(r, c) ==
    LET q == (r - 1) * FirstChannels + c
    IN  Signed16(FileWord(SectorBase((q \div 240) + 1) + 30 + 2 * (q % 240)))

\* the columns of row r from column `from` on are the words of the axes at, at+1, at+2
\* times scale
ColumnsAre(r, from, at, scale) ==
    \A k \in 0..2 : sample_values[r][from + k] = RatTimes(RatOfInt(RowWord(r, at + k)), scale)

\* C11 as claimed: a WORD-packed first sector of 9 axes gives gyro at 0..2, accel at 3..5
\* and mag at 6..8, one of 6 axes gives gyro at 0..2 and accel at 3..5, one of 3 axes
\* gives accel at 0..2 alone; the format is derived, the load does not raise, and the
\* accel and gyro columns of the table are the words of those axes in units of 1/256 g
\* and 2000/32768 dps.
C11_WordAxesAssigned ==
    (HeaderDone /\ FileSectors >= 1 /\ SectorIntact(1) /\ FirstPacking \in {50, 98, 146}) =>
        /\ pc # "raised"
        /\ AxisAt("gyroAxis") = (IF FirstChannels >= 6 THEN 0 ELSE -1)
        /\ AxisAt("accelAxis") = (IF FirstChannels >= 6 THEN 3 ELSE 0)
        /\ AxisAt("magAxis") = (IF FirstChannels >= 9 THEN 6 ELSE -1)
        /\ (pc = "done" /\ options.include_accel) =>
              \A r \in 1..Len(sample_values) :
                  ColumnsAre(r, AccelColumn, IF FirstChannels >= 6 THEN 3 ELSE 0, Rat(1, 256))
        /\ (pc = "done" /\ options.include_gyro /\ FirstChannels >= 6) =>
              \A r \in 1..Len(sample_values) :
                  ColumnsAre(r, AccelColumn + (IF options.include_accel THEN 3 ELSE 0), 0,
                             Rat(2000, 32768))

\* what happens instead: the first sector is intact and WORD-packed with 9 axes, and the
\* load is left with a NameError before any format is kept
C11_NineAxesRaise ==
    /\ pc = "raised" /\ error = "NameError"
    /\ SectorIntact(1) /\ FirstPacking = 146
    /\ data_format = EmptyDict

\* the 6-axis and 3-axis cases do as claimed: a table is built (used to see that the
\* claim fails on 9 axes alone)
C11_SixAxesLoad ==
    /\ pc = "done" /\ FirstPacking = 98 /\ options.include_accel /\ options.include_gyro
    /\ AxisAt("gyroAxis") = 0 /\ AxisAt("accelAxis") = 3
    /\ Len(sample_values) = 40 * FileSectors

(***************************************************************************)
(* Claims about the times of the sectors and of the samples.               *)
(***************************************************************************)
\* the device-fractional field of sector j, and the 16-bit fraction of a second it holds
FractionalField(j) == FileWord(SectorBase(j) + 4)

HasFraction(j) == FractionalField(j) >= 32768

Fraction16(j) == (FractionalField(j) % 32768) * 2

\* the configured integer sample rate of sector j: 3200 / 2^(15 - low nibble), truncated
ConfiguredRate(j) == 3200 \div (2 ^ (15 - (FileByte(SectorBase(j) + 24) % 16)))

\* the offset and the time the claim gives sector j
AdjustedOffset(j) ==
    Signed16(FileWord(SectorBase(j) + 26))
    + (IF HasFraction(j) THEN (Fraction16(j) * ConfiguredRate(j)) \div 65536 ELSE 0)

AdjustedTime(j) ==
    LET decoded == parse_timestamp(FileU32(SectorBase(j) + 14))
    IN  Time(decoded.d, decoded.s, IF HasFraction(j) THEN Fraction16(j) ELSE 0, 65536)

\* the sector as the single-sector parser reads it
Block(j) == SubSeq(file, SectorBase(j) + 1, SectorBase(j) + 512)

\* the rows of the table of sectors carry the times of the sectors
TimesParsed == Len(df) > 0 /\ HasKey(df[1], "timestamp")

\* C12 as claimed: for every valid sector with a calendar date, the whole-file path and
\* the single-sector parser both give the offset of the file plus floor(f16 * rate / 65536)
\* and the decoded time plus f16 / 65536 s if the top bit of the device-fractional field
\* is set, and the offset and the decoded time unchanged if it is clear.
C12_FractionAdjustsOffsetAndTime ==
    /\ FormatParsed =>
          /\ data_format["timestampOffset"] = AdjustedOffset(1)
          /\ ~InvalidDate(FileU32(SectorBase(1) + 14)) => data_format["timestamp"] = AdjustedTime(1)
    /\ TimesParsed =>
          \A j \in 1..Len(df) :
              (SectorValid(j) /\ ~InvalidDate(FileU32(SectorBase(j) + 14))) =>
                  /\ df[j].timestamp_offset = AdjustedOffset(j)
                  /\ df[j].timestamp = AdjustedTime(j)
                  /\ parse_cwa_data(Block(j))["timestampOffset"] = df[j].timestamp_offset
                  /\ parse_cwa_data(Block(j))["timestamp"] = df[j].timestamp

\* what happens instead, on a first sector with fraction 0x8000 / 65536 s at 100 Hz: the
\* single-sector parser moves the offset by 50 samples, the whole-file path by none
C12_BulkOffsetUnadjusted ==
    /\ pc = "done" /\ TimesParsed
    /\ FractionalField(1) = 49152 /\ ConfiguredRate(1) = 100
    /\ data_format["timestampOffset"] = Signed16(FileWord(SectorBase(1) + 26)) + 50
    /\ df[1].timestamp_offset = Signed16(FileWord(SectorBase(1) + 26))
    /\ df[1].timestamp = AdjustedTime(1)

\* and on a later sector with a fraction, after a first sector without: the whole-file
\* path adds no fraction to the time of the sector, the single-sector parser does
C12_BulkTimeUnadjusted ==
    /\ pc = "done" /\ TimesParsed /\ Len(df) >= 2
    /\ ~HasFraction(1) /\ HasFraction(2) /\ SectorValid(2)
    /\ df[2].timestamp = TimeOfSecs(parse_timestamp(FileU32(SectorBase(2) + 14)))
    /\ parse_cwa_data(Block(2))["timestamp"] = AdjustedTime(2)
    /\ AdjustedTime(2) # df[2].timestamp

\* the time of the sample at index x (from 0) of the table
TimeOfSample(x) == sample_values[x + 1][1]

\* b - a in seconds, for two times
SecondsBetween(a, b) ==
    RatPlus(RatOfInt((b.d - a.d) * SECONDS_PER_DAY + (b.s - a.s)), RatMinus(b.q, a.q))

\* the anchor of sector j: the index of the sample its timestamp is the time of
AnchorIndex(j) == df[j].sample_index + df[j].timestamp_offset

\* the time of sample x lies on the line through the anchors of sectors j and k
OnLineThrough(x, j, k) ==
    RatTimes(SecondsBetween(df[j].timestamp, TimeOfSample(x)),
             RatOfInt(AnchorIndex(k) - AnchorIndex(j)))
    = RatTimes(SecondsBetween(df[j].timestamp, df[k].timestamp), RatOfInt(x - AnchorIndex(j)))

TimedTable == pc = "done" /\ options.include_time

\* C13: with include_time, the anchor index of a sector is the index of its first sample
\* (sector index times the samples per sector) plus its timestamp offset and its
\* timestamp the decoded one (on a file without fractional timestamps, as read from the
\* file); the sample at the anchor index of a sector has the timestamp of the sector as
\* its time, and a sample between the anchors of two consecutive sectors has the time on
\* the line through them.
C13_TimesInterpolateBetweenAnchors ==
    TimedTable =>
        /\ \A j \in 1..Len(df) :
              /\ ~HasFraction(1) =>
                    /\ AnchorIndex(j) = (j - 1) * FileWord(SectorBase(1) + 28)
                                         + Signed16(FileWord(SectorBase(j) + 26))
                    /\ df[j].timestamp = TimeOfSecs(ToUint32(fast_timestamp(FileU32(SectorBase(j) + 14))))
              /\ df[j].timestamp_index = AnchorIndex(j)
              /\ AnchorIndex(j) \in 0..(Len(sample_values) - 1) =>
                    TimeOfSample(AnchorIndex(j)) = df[j].timestamp
        /\ \A j \in 1..(Len(df) - 1) :
              \A x \in 0..(Len(sample_values) - 1) :
                  (AnchorIndex(j) <= x /\ x <= AnchorIndex(j + 1)) => OnLineThrough(x, j, j + 1)

\* a table with times from three sectors whose offsets differ (-3, 12, 6): the anchors are
\* 12 and 6 samples into the second and third sectors, and the sample midway between them
\* has the time midway between their timestamps
C13_Witness ==
    /\ TimedTable /\ Len(df) = 3
    /\ df[1].timestamp_offset = -3 /\ df[2].timestamp_offset = 12 /\ df[3].timestamp_offset = 6
    /\ LET a == AnchorIndex(2)
           b == AnchorIndex(3)
       IN  /\ TimeOfSample(a) = df[2].timestamp
           /\ TimeOfSample(b) = df[3].timestamp
           /\ (b - a) % 2 = 0
           /\ SecondsBetween(df[2].timestamp, TimeOfSample((a + b) \div 2)) = Rat(1, 2)
           /\ SecondsBetween(df[2].timestamp, df[3].timestamp) = RatOfInt(1)

\* the samples before the anchor of the first sector and after that of the last one
BeforeAnchors == {x \in 0..(Len(sample_values) - 1) : x < AnchorIndex(1)}

AfterAnchors == {x \in 0..(Len(sample_values) - 1) : x > AnchorIndex(Len(df))}

\* C14 as claimed: the samples before the first anchor have times on the line through
\* the first two anchors, and those after the last anchor times on the line through the
\* last two.
C14_TimesExtrapolatedOutsideAnchors ==
    (TimedTable /\ Len(df) >= 2) =>
        /\ \A x \in BeforeAnchors : OnLineThrough(x, 1, 2)
        /\ \A x \in AfterAnchors : OnLineThrough(x, Len(df) - 1, Len(df))

\* C14 as amended: the samples before the first anchor all have the timestamp of the
\* first sector as their time, and those after the last anchor the timestamp of the last
\* sector.
C14_TimesHeldOutsideAnchors ==
    TimedTable =>
        /\ \A x \in BeforeAnchors : TimeOfSample(x) = df[1].timestamp
        /\ \A x \in AfterAnchors : TimeOfSample(x) = df[Len(df)].timestamp

\* a table with times from two or more sectors a second apart with anchors at their
\* eighth samples: the first seven samples and the samples after the last anchor are
\* held at the first and the last timestamp
C14_Witness ==
    /\ TimedTable /\ Len(df) >= 2
    /\ AnchorIndex(1) = 7
    /\ SecondsBetween(df[1].timestamp, df[2].timestamp) = RatOfInt(1)
    /\ \A x \in 0..6 : TimeOfSample(x) = df[1].timestamp
    /\ AnchorIndex(Len(df)) + 1 < Len(sample_values)
    /\ TimeOfSample(Len(sample_values) - 1) = df[Len(df)].timestamp
    /\ TimeOfSample(AnchorIndex(Len(df)) + 1) = df[Len(df)].timestamp

(***************************************************************************)
(* Claims about the columns of the table.                                  *)
(***************************************************************************)
\* the labels the flags call for on a file whose first sector has FirstChannels axes:
\* accel from 3 axes on, gyro from 6, mag from 9
ExpectedLabels ==
    (IF options.include_time THEN <<"time">> ELSE <<>>)
    \o (IF options.include_accel /\ FirstChannels >= 3
        THEN <<"accel_x", "accel_y", "accel_z">> ELSE <<>>)
    \o (IF options.include_gyro /\ FirstChannels >= 6
        THEN <<"gyro_x", "gyro_y", "gyro_z">> ELSE <<>>)
    \o (IF options.include_mag /\ FirstChannels >= 9
        THEN <<"mag_x", "mag_y", "mag_z">> ELSE <<>>)
    \o (IF options.include_light THEN <<"light">> ELSE <<>>)
    \o (IF options.include_temperature THEN <<"temperature">> ELSE <<>>)

\* a file of 3 axes, packed in DWORDs or in WORDs, whose first sector is full
AccelOnly ==
    /\ SectorIntact(1) /\ FirstPacking \in {48, 50}
    /\ FileWord(SectorBase(1) + 28) = RowsPerSector

\* C15: whatever the six flags and the format, the labels of a table are time, accel_x/y/z,
\* gyro_x/y/z, mag_x/y/z, light, temperature in this order, each present if asked for
\* (and, for a sensor, if the format has it); every row has as many columns as there are
\* labels; the load never raises 'not all output axes accounted for'; and on an
\* accel-only file no choice of flags makes the load raise.
C15_LabelsFollowFlags ==
    /\ pc = "done" =>
          /\ labels = ExpectedLabels
          /\ \A r \in 1..Len(sample_values) : Len(sample_values[r]) = Len(labels)
    /\ error # "Internal error: not all output axes accounted for"
    /\ (HeaderDone /\ AccelOnly) => pc # "raised"

\* a table from an accel-only file with every flag set: no gyro or mag column
C15_Witness ==
    /\ pc = "done" /\ AccelOnly
    /\ \A flag \in DOMAIN options : options[flag]
    /\ labels = <<"time", "accel_x", "accel_y", "accel_z", "light", "temperature">>
    /\ Len(sample_values) > 0
    /\ \A r \in 1..Len(sample_values) : Len(sample_values[r]) = 6

(***************************************************************************)
(* Claims about the segments of the sectors.                               *)
(***************************************************************************)
\* a boundary follows sector i: validity, session id or packing byte differ between i and
\* i + 1, or the sequence id of i + 1 is not that of i plus one
BoundaryAfter(i) ==
    \/ SectorValid(i) # SectorValid(i + 1)
    \/ FileU32(SectorBase(i) + 6) # FileU32(SectorBase(i + 1) + 6)
    \/ FileByte(SectorBase(i) + 25) # FileByte(SectorBase(i + 1) + 25)
    \/ FileU32(SectorBase(i + 1) + 10)
         # U32(FileU32(SectorBase(i) + 10).hi, FileU32(SectorBase(i) + 10).lo + 1)

\* the maximal segments of the sectors, each as <<first sector, last sector>>
ExpectedSegments ==
    LET ends == SortedSeq({i \in 1..FileSectors : i = FileSectors \/ BoundaryAfter(i)})
    IN  [k \in 1..Len(ends) |-> <<IF k = 1 THEN 1 ELSE ends[k - 1] + 1, ends[k]>>]

\* C16 as claimed: the loader computes the segments of the sectors and exposes them; a
\* stream with a single sequence-id gap at sector k is two segments split at k.
C16_SegmentsExposed ==
    pc = "done" => all_segments = Some(ExpectedSegments)

\* what happens instead: three sectors with sequence ids 0, 6, 7 are loaded, which are
\* the two segments 1..1 and 2..3, and no segments were computed
C16_NoSegments ==
    /\ pc = "done" /\ FileSectors = 3
    /\ FileU32(SectorBase(1) + 10) = U32(0, 0)
    /\ FileU32(SectorBase(2) + 10) = U32(0, 6)
    /\ FileU32(SectorBase(3) + 10) = U32(0, 7)
    /\ ExpectedSegments = <<<<1, 1>>, <<2, 3>>>>
    /\ all_segments = Unset

(***************************************************************************)
(* Claims about the header block and the length of the file.               *)
(***************************************************************************)
\* the file has a header block of 512 bytes that starts "MD" with a packet length of 508
\* or more
HeaderIntact ==
    /\ Len(file) >= 512
    /\ FileByte(0) = 77 /\ FileByte(1) = 68
    /\ FileWord(2) >= 508

\* ceil(packet length / 512) * 512: the least multiple of 512 that is not below it
DataOffsetOfFile ==
    CHOOSE m \in {512 * k : k \in 0..128} : m >= FileWord(2) /\ m < FileWord(2) + 512

\* the 512 bytes at offset base are a data sector: "AX", length 508, words summing to zero
IntactAt(base) ==
    /\ Len(file) >= base + 512
    /\ FileByte(base) = 65 /\ FileByte(base + 1) = 88
    /\ FileWord(base + 2) = 508
    /\ WordSum(file, base \div 2, (base \div 2) + 256) % 65536 = 0

NothingInterpreted ==
    /\ data_format = EmptyDict /\ df = <<>>
    /\ labels = <<>> /\ sample_values = <<>>

\* C17: if the file is shorter than 512 bytes, or does not start "MD", or the packet
\* length of its header is below 508, the load raises 'File header parsing error' in
\* _parse_header: no data sector is parsed and no table is made.
C17_BadHeaderAborts ==
    (HeaderDone /\ ~HeaderIntact) =>
        /\ pc = "raised" /\ error = "File header parsing error"
        /\ NothingInterpreted

\* a file that starts "MD" with packet length 507, followed by an intact data sector at
\* offset 512: the load raised and nothing was interpreted
C17_Witness ==
    /\ pc = "raised" /\ error = "File header parsing error"
    /\ Len(file) >= 1024
    /\ FileByte(0) = 77 /\ FileByte(1) = 68 /\ FileWord(2) = 507
    /\ IntactAt(512)
    /\ NothingInterpreted

\* what the claim says of a file once its header block has been looked at
NoDataExactlyWhenShort ==
    /\ data_offset = DataOffsetOfFile
    /\ (pc = "raised" /\ error = "File has no data") <=> Len(file) < DataOffsetOfFile + 512
    /\ (Len(file) = DataOffsetOfFile + 512 /\ IntactAt(DataOffsetOfFile)) =>
          /\ pc # "raised"
          /\ data_format["sequenceId"] = FileU32(DataOffsetOfFile + 10)
          /\ data_format["numAxesBPS"] = FileByte(DataOffsetOfFile + 25)
          /\ data_format["sampleCount"] = FileWord(DataOffsetOfFile + 28)

\* C18 as claimed: with the data offset the packet length rounded up to a multiple of 512,
\* a file with a valid header raises 'File has no data' exactly when it is shorter than
\* the data offset plus 512; a file of exactly that length passes, and its one sector
\* gives the format.
C18_NoDataExactlyWhenShort ==
    (HeaderDone /\ HeaderIntact) => NoDataExactlyWhenShort

\* what happens instead: a valid header whose metadata is followed by 0xFF bytes, on a
\* file shorter than the data offset plus 512, raises UnicodeDecodeError and the length
\* of the file is never looked at
C18_ShortFileOtherError ==
    /\ pc = "raised" /\ error = "UnicodeDecodeError"
    /\ HeaderIntact
    /\ Len(file) < DataOffsetOfFile + 512
    /\ data_offset = 0

\* the claim holds of every file whose header was parsed
C18_HoldsOnceHeaderParsed ==
    (HeaderDone /\ HasKey(header, "packetLength")) =>
        /\ HeaderIntact
        /\ header["packetLength"] = FileWord(2)
        /\ NoDataExactlyWhenShort

\* a header of packet length 513 and one data sector at offset 1024, which ends the file:
\* the table of its samples is made
C18_ExactLengthLoads ==
    /\ pc = "done"
    /\ FileWord(2) = 513 /\ data_offset = 1024
    /\ Len(file) = 1024 + 512
    /\ IntactAt(1024)
    /\ Len(df) = 1 /\ Len(sample_values) = 80

\* the other side: the same header on a file one byte shorter has no data
C18_ShortByOne ==
    /\ pc = "raised" /\ error = "File has no data"
    /\ FileWord(2) = 513 /\ data_offset = 1024
    /\ Len(file) = 1024 + 511

\* the 448 bytes of metadata, and what is left of them without the trailing space, NUL
\* and 0xFF bytes
MetadataRegion == SubSeq(file, 65, 512)

UnpaddedLength ==
    IF \A i \in 1..448 : MetadataRegion[i] \in {32, 0, 255} THEN 0
    ELSE CHOOSE n \in 1..448 :
            /\ MetadataRegion[n] \notin {32, 0, 255}
            /\ \A i \in (n + 1)..448 : MetadataRegion[i] \in {32, 0, 255}

UnpaddedText == SubSeq(MetadataRegion, 1, UnpaddedLength)

\* C20 as claimed: a header whose metadata is name=value pairs followed by space, NUL or
\* 0xFF bytes is parsed, to the metadata map of the text without those bytes; 0xFF
\* bytes do not make the parse fail.
C20_PaddedMetadataParses ==
    (HeaderDone /\ HeaderIntact) =>
        /\ ~(pc = "raised" /\ error = "UnicodeDecodeError")
        /\ HasKey(header, "metadata")
        /\ header["metadata"] = cwa_parse_metadata(UnpaddedText)

\* what happens instead: the metadata "_c=1&x=%41+b" followed by 0xFF bytes makes the
\* load raise UnicodeDecodeError, and no header is kept
C20_PaddingFFRaises ==
    /\ pc = "raised" /\ error = "UnicodeDecodeError"
    /\ HeaderIntact
    /\ UnpaddedText = <<95, 99, 61, 49, 38, 120, 61, 37, 52, 49, 43, 98>>
    /\ \A i \in 13..448 : MetadataRegion[i] = 255
    /\ header = EmptyDict

(***************************************************************************)
(* Claims about the packing schemes that are handled.                      *)
(***************************************************************************)
\* the packing byte is neither the packed DWORD scheme (3 channels, nibble 0) nor a WORD
\* scheme (nibble 2)
UnknownScheme == FirstPacking # DWORD_PACKING /\ FirstPacking % 16 # 2

\* C19 as claimed: when the first data sector is valid and has at least one channel, the
\* load raises 'Unhandled data format' exactly when the packing byte is of neither known
\* scheme; with a known scheme the load raises nothing.
C19_UnhandledExactlyWhenUnknown ==
    (pc \in {"done", "raised"} /\ SectorIntact(1) /\ FirstChannels >= 1) =>
        IF UnknownScheme THEN pc = "raised" /\ error = "Unhandled data format"
        ELSE pc = "done"

\* what happens instead: nine channels of one byte each (packing 0x91) are of no known
\* scheme, yet the load raises NameError when the format of the first sector is read
C19_UnknownSchemeOtherError ==
    /\ pc = "raised" /\ error = "NameError"
    /\ SectorIntact(1)
    /\ FirstPacking = 145 /\ UnknownScheme

\* the claim holds of the packing bytes with fewer than seven channels
C19_HoldsBelowSevenChannels ==
    FirstChannels < 7 => C19_UnhandledExactlyWhenUnknown

(***************************************************************************)
(* Claims about the sensor configuration and the rate code.                *)
(***************************************************************************)
HeaderParsed == HeaderDone /\ HasKey(header, "packetLength")

\* C21 as claimed: the gyro range of the header is 8000 / 2^n when the low nibble n of
\* the sensor configuration byte is not zero and the byte is not 0xff, and 0 otherwise,
\* also when the low nibble is zero and the high nibble is not.
C21_GyroRangeOfLowNibble ==
    HeaderParsed =>
        header["gyroRange"] =
            IF FileByte(35) % 16 # 0 /\ FileByte(35) # 255
            THEN Rat(8000, 2 ^ (FileByte(35) % 16)) ELSE RatOfInt(0)

\* what happens instead: the byte 0x10 (magnetometer nibble set, gyro nibble zero) gives
\* the gyro range 8000
C21_MagnetometerAloneGivesRange ==
    /\ HeaderParsed
    /\ FileByte(35) = 16
    /\ header["gyroRange"] = RatOfInt(8000)

\* the claim holds of every byte whose low nibble is not zero, and of 0x00 and 0xff
C21_HoldsOfOtherBytes ==
    (FileByte(35) % 16 # 0 \/ FileByte(35) = 0) => C21_GyroRangeOfLowNibble

\* C22 as claimed: a rate code whose low nibble is 13 decodes to 100 Hz.
C22_ThirteenIsHundredHertz ==
    (HeaderParsed /\ FileByte(36) % 16 = 13) => header["sampleRate"] = RatOfInt(100)

\* C22: with frequency = 3200 / 2^(15 - (code & 0xF)), a rate code whose low nibble is 13
\* decodes to 800 Hz, and it is the low nibble 10 that decodes to 100 Hz, in the header
\* and in the data sector alike.
C22_TenIsHundredHertz ==
    /\ (HeaderParsed /\ FileByte(36) % 16 = 13) => header["sampleRate"] = RatOfInt(800)
    /\ (HeaderParsed /\ FileByte(36) % 16 = 10) => header["sampleRate"] = RatOfInt(100)
    /\ (FormatParsed /\ FileByte(1024 + 24) % 16 = 13) =>
            data_format["frequency"] = RatOfInt(800)
    /\ (FormatParsed /\ FileByte(1024 + 24) % 16 = 10) =>
            data_format["frequency"] = RatOfInt(100)

\* a file of rate code 0x4d was loaded: its header and its format say 800 Hz
C22_Witness ==
    /\ pc = "done"
    /\ FileByte(36) = 77 /\ FileByte(1024 + 24) = 77
    /\ header["sampleRate"] = RatOfInt(800)
    /\ data_format["frequency"] = RatOfInt(800)

(***************************************************************************)
(* Claims about the light and temperature columns.                         *)
(***************************************************************************)
\* the column of the table with the given label
LabelIndex(label) == CHOOSE i \in 1..Len(labels) : labels[i] = label

\* the light and the temperature of sector j, as the table gives them: the low ten bits
\* of the field, and for the temperature times 75/256 less 50
LightOfSector(j) == RatOfInt(FileWord(SectorBase(j) + 18) % 1024)

TemperatureOfSector(j) ==
    Rat((FileWord(SectorBase(j) + 20) % 1024) * 75 - 50 * 256, 256)

\* a + (b - a) * k / count
Blend(a, b, k, count) == RatPlus(a, RatTimes(RatMinus(b, a), Rat(k, count)))

\* what the claim says of one column: the row k after the first sample of sector j has
\* the value of that sector blended with the value of the next
BlendedOverIndex(label, ofFirst, ofSecond, j, k) ==
    sample_values[(j - 1) * RowsPerSector + k + 1][LabelIndex(label)]
        = IF k = 0 THEN ofFirst ELSE Blend(ofFirst, ofSecond, k, RowsPerSector)

FatalErrors ==
    {"File header parsing error", "File has no data", "Unexpected data format",
     "Unhandled data format"}

Released == fh = "None" /\ full_buffer = "None"

\* C24 as claimed: when the load raises a fatal error after the file was opened and
\* mapped, the constructor has returned to its caller with the file handle and the
\* mapping released.
C24_AbortReleases ==
    (pc = "raised" /\ error \in FatalErrors) => Released

\* what happens instead: the header of a mapped file is refused and the constructor has
\* returned with the handle open and the mapping in place
C24_AbortLeavesOpen ==
    /\ pc = "raised" /\ error = "File header parsing error"
    /\ Len(file) >= 512
    /\ fh = "open" /\ full_buffer = "mmap"

\* they are released by a later close(), which __del__ calls if and when the object is
\* collected
C24_ReleasedByCloseAlone ==
    [][(~Released /\ Released') => (pc \in {"done", "raised"} /\ pc' = pc)]_vars

(***************************************************************************)
(* Claims about PotentiallyZippedFile.                                     *)
(***************************************************************************)
\* the filters as a list: a single string is the list of that string
FilterList == IF zf_filters.list THEN zf_filters.value ELSE <<zf_filters.value>>

\* the entries of the archive that match at least one of the filters
MatchingEntries ==
    {k \in 1..Len(zf_source.entries) :
        \E i \in 1..Len(FilterList) :
           fnmatchcase(lower(zf_source.entries[k]), lower(FilterList[i]))}

NamedZip == lower(splitext(zf_source.name)[2]) = <<".", "z", "i", "p">>

\* C25 as claimed: for a source named *.zip the construction succeeds exactly when one
\* entry of the archive, and no more, matches at least one of the filters, and raises
\* otherwise; a filter given as a string selects what the list of that string selects.
C25_SucceedsExactlyOnSingleMatch ==
    (zf_pc \in {"constructed", "raised"} /\ NamedZip) =>
        /\ zf_pc = "constructed" <=> Cardinality(MatchingEntries) = 1
        /\ zf_pc = "constructed" =>
              \E k \in MatchingEntries : zf_self.archive_file = zf_source.entries[k]

\* what happens instead: with the string '*.cwa' and an archive of a.cwa and n.txt both
\* entries are taken to match, and the construction raises
C25_StringFilterMatchesAll ==
    /\ zf_pc = "raised"
    /\ zf_error = "Multiple filenames in the archive match the filter(s)"
    /\ zf_filters = [list |-> FALSE, value |-> <<"*", ".", "c", "w", "a">>]
    /\ zf_source.entries = <<<<"a", ".", "c", "w", "a">>, <<"n", ".", "t", "x", "t">>>>
    /\ MatchingEntries = {1}
    /\ zf_matching = zf_source.entries

\* the claim holds whenever the filters are given as a list
C25_HoldsOfLists ==
    zf_filters.list => C25_SucceedsExactlyOnSingleMatch

(***************************************************************************)
(* Claims about the two decoders of a packed DWORD.                        *)
(***************************************************************************)
\* C26: for every packed value the whole-file decoder (unsigned 32-bit arithmetic, the
\* shift by the exponent, the store into signed 16 bits) gives the three integers that
\* _dword_unpack gives.
C26_BulkUnpackAgrees ==
    (dw_axes # Unset /\ dw_bulk # Unset) => dw_bulk = dw_axes

\* both decoders ran on a value whose fields are negative and shifted by three bits: the
\* unsigned subtraction wrapped and the 16-bit store brought the values back
C26_Witness ==
    /\ dw_in = [e |-> 3, x |-> 512, y |-> 1023, z |-> 511]
    /\ dw_axes = Some(<<-4096, -8, 4088>>)
    /\ dw_bulk = Some(<<-4096, -8, 4088>>)

(***************************************************************************)
(* Claims about the lengths of the columns.                                *)
(***************************************************************************)
\* the load got past the header and the format of the first data sector
ChecksPassed == HeaderIntact /\ SectorIntact(1) /\ pc \in {"done", "raised"}

\* C27 as claimed: on every load that passes the header and format checks, the number of
\* sectors times the sample_count of the first sector (the length of the time, light and
\* temperature columns) is the number of rows decoded, the number of sectors times the
\* samples per sector, and filling a column never fails with a length mismatch.
C27_SectorColumnsFitRows ==
    ChecksPassed =>
        /\ FileSectors * FileWord(SectorBase(1) + 28) = FileSectors * RowsPerSector
        /\ ~(pc = "raised" /\ error = "ValueError")
        /\ pc = "done" => Len(sample_values) = Len(df) * data_format["sampleCount"]

\* what happens instead: the first sector says 40 samples and holds 80 rows of words; the
\* time column of 40 per sector does not fit the 80 rows per sector and the load raises
C27_ShortCountRaises ==
    /\ pc = "raised" /\ error = "ValueError"
    /\ HeaderIntact /\ SectorIntact(1)
    /\ options.include_time
    /\ FileWord(SectorBase(1) + 28) = 40 /\ RowsPerSector = 80

\* the claim holds when the first sector says as many samples as a sector holds
C27_HoldsOfFullFirstSector ==
    FileWord(SectorBase(1) + 28) = RowsPerSector => C27_SectorColumnsFitRows

(***************************************************************************)
(* Claims about closing a loaded file.                                     *)
(***************************************************************************)

\* C28: close() is idempotent and only releases the file.  Every call of close(),
\* __exit__ or __del__ on a loaded object leaves the handle and the buffer None,
\* raises nothing and leaves the table of get_sample_values() as it was built; a
\* call after the first closes neither the handle nor the mapping again.
C28_CloseIsIdempotent ==
    [][pc = "done" /\ closing' # closing =>
          /\ fh' = "None" /\ full_buffer' = "None"
          /\ pc' = "done" /\ error' = ""
          /\ sample_values' = sample_values /\ labels' = labels
          /\ closing'.fh_closes = 1
          /\ closing'.buffer_closes <= 1
          /\ closing.calls # <<>> =>
                /\ closing'.fh_closes = closing.fh_closes
                /\ closing'.buffer_closes = closing.buffer_closes]_vars

\* a table was built; close(), __exit__ and __del__ were each called; the handle and
\* the mapping were closed once
C28_Witness ==
    /\ pc = "done" /\ sample_values # <<>>
    /\ {closing.calls[i] : i \in DOMAIN closing.calls} = Closers
    /\ fh = "None" /\ full_buffer = "None"
    /\ closing.fh_closes = 1 /\ closing.buffer_closes = 1

(***************************************************************************)
(* Claims about the epochs of CalcSvm.                                     *)
(***************************************************************************)

\* the sequences of a sequence, one after the other
RECURSIVE Flatten(_)
Flatten(seqs) == IF seqs = <<>> THEN <<>> ELSE Head(seqs) \o Flatten(Tail(seqs))

\* the sum of abs(|a| - 1) over the rows of the input with these indices
RECURSIVE SvmSum(_)
SvmSum(rows) ==
    IF rows = <<>> THEN 0
    ELSE svm_of(sv_input[Head(rows)][2], sv_input[Head(rows)][3], sv_input[Head(rows)][4])
           + SvmSum(Tail(rows))

\* the rows taken from the input so far are, in order, those of the epochs returned and
\* then those of the epoch being accumulated; every epoch returned has a row and is the
\* mean over its rows
RowsAccounted ==
    /\ Flatten(sv_rows.emitted) \o sv_rows.current = [i \in 1..sv_read |-> i]
    /\ Len(sv_rows.emitted) = Len(sv_output)
    /\ sv_self.count = Len(sv_rows.current)
    /\ \A k \in DOMAIN sv_output :
          /\ sv_rows.emitted[k] # <<>>
          /\ sv_output[k][2] = Rat(SvmSum(sv_rows.emitted[k]), Len(sv_rows.emitted[k]))

\* at StopIteration every row of the input is in an epoch that was returned
AllEmittedAtStop ==
    sv_pc = "stopped" =>
        /\ sv_read = Len(sv_input)
        /\ sv_rows.current = <<>>
        /\ Flatten(sv_rows.emitted) = [i \in 1..Len(sv_input) |-> i]

\* with alignment None the time of every epoch returned is a whole number of epochs from
\* the time of the first row
EpochTimesFromFirstRow ==
    sv_options.alignment = None =>
        \A k \in DOMAIN sv_output :
            (sv_output[k][1] - sv_input[1][1]) % sv_options.epoch_size = 0

\* C29: for every finite input of [time, x, y, z] rows the iteration of CalcSvm ends
\* with StopIteration; every row is accumulated into exactly one epoch that is returned,
\* the last, partial one after the input has ended and before StopIteration; no epoch
\* without rows is returned; with alignment None every epoch time is the time of the
\* first row plus a whole number of epoch sizes.
C29_EveryRowInOneEpoch ==
    /\ <>[](sv_pc = "stopped")
    /\ [](RowsAccounted /\ AllEmittedAtStop /\ EpochTimesFromFirstRow)

\* three rows, the first two in one epoch and the third in a later one, aligned to the
\* start of the data: both epochs were returned before StopIteration
C29_Witness ==
    /\ sv_pc = "stopped"
    /\ sv_options.alignment = None
    /\ Len(sv_input) = 3
    /\ sv_rows.emitted = <<<<1, 2>>, <<3>>>>
    /\ sv_output[2][1] > sv_output[1][1] + sv_options.epoch_size

(***************************************************************************)
(* Claims about the temporary file of MultiData.                           *)
(***************************************************************************)

\* the inner file was extracted from the archive under a temporary name
Extracted == zf_self.archive_file # None

\* only the source file is left on the disk
TemporaryFileGone == zf_disk = {zf_source.name}

HasMarker(path) == \E i \in 1..Len(path) : path[i] = TEMP_MARKER

C30_InnerConstructorRaised ==
    /\ md_pc = "raised" /\ md_error = "raised by the inner loader" /\ Extracted
    /\ md_calls = <<>>
    /\ Len(zf_removed) = 1 /\ TemporaryFileGone

\* a file without a loader was extracted and removed
C30_UnhandledFileType ==
    /\ md_pc = "raised" /\ md_error = "Unhandled file type" /\ Extracted
    /\ Len(zf_removed) = 1 /\ TemporaryFileGone

====
